---- MODULE Spec2Model ----
(***************************************************************************)
(* Model of the letterbuds matching engine (src/services/matchService.ts), *)
(* its presentation order (components/MatchResults.tsx) and the session    *)
(* cache (src/services/cacheService.ts).                                   *)
(*                                                                         *)
(* Strings are sequences of one-character strings, so that toLowerCase,    *)
(* trim and template literals are computed character by character.  An     *)
(* optional field of a Film (year?, tmdbId?) is a field that is absent     *)
(* from the record's DOMAIN.                                               *)
(***************************************************************************)
EXTENDS Integers, Sequences, FiniteSets, TLC

(***************************************************************************)
(* Bounds of the model.                                                    *)
(***************************************************************************)
MaxFilms == 2
MaxIds == 5
MaxSets == 1
MaxTicks == 1
MaxMerge == 2
MaxRequests == 2
MaxRemoves == 1
MaxPicks == 1
MaxFailures == 5
MaxAdvances == 2

VARIABLES
    pc,          \* which specification is running and where it stands
    userFilms,   \* argument of findCommonFilmsMultiUser: <<[username, films]>>
    result,      \* the MultiUserMatchResult returned by the matcher
    rendered,    \* the groups in the order MatchResults displays them
    filmA,       \* getFilmKey check: first entry
    filmB,       \* getFilmKey check: second entry
    keys,        \* getFilmKey check: <<getFilmKey(filmA), getFilmKey(filmB)>>
    ids,         \* generateCombinations check: the ordered list of owner ids
    subsets,     \* generateCombinations check: the list it returned
    now,            \* Date.now(), in milliseconds since the cache was created
    watchlistCache, \* SessionCache.watchlistCache: entries in Map insertion order
    profileCache,   \* SessionCache.profileCache: entries in Map insertion order
    enrichedCache,  \* SessionCache.enrichedCache: entries in Map insertion order
    last,           \* the latest cache call: its arguments, result and the store before it
    sets,           \* number of single set calls made so far
    ticks,          \* number of clock advances so far
    baseFilms,      \* mergeEnrichedDataIntoFilms: the argument films
    enrichedList,   \* mergeEnrichedDataIntoFilms: the argument enrichedFilms
    merged,         \* mergeEnrichedDataIntoFilms: the returned list
    isLoading,      \* App state isLoading
    appResult,      \* App state result: Null or the published match result
    appError,       \* App state error: Null or the message
    appUsernames,   \* App state usernames
    appProfiles,    \* App state profiles
    formKey,        \* App state formKey
    currentScrapingUsername, \* App state currentScrapingUsername, Null for undefined
    userProfiles,   \* handleSubmit: the local list userProfiles
    failedUsers,    \* handleSubmit: the local list failedUsers
    enrichmentQueue, \* handleSubmit: the local list enrichmentQueue
    tasks,          \* the enrichCommonFilmsInBackground calls that await a lookup
    requests,       \* number of comparisons submitted so far
    phase,          \* "idle", "fetching" or "ended": where the latest comparison stands
    resultReq,      \* the number of the comparison that published appResult
    enrichStarted,  \* the comparisons that called enrichCommonFilmsInBackground
    lastUpdate,     \* the latest setResult of an enrichment lookup that resolved
    inFlight,       \* the owner fetches handleSubmit awaits: [req, owner, watchlist]
    matcherRuns,    \* per comparison, the calls of findCommonFilmsMultiUser
    lastFetch,      \* the latest owner fetch that resolved or threw
    userInputs,     \* WatchlistForm state userInputs
    nextId,         \* WatchlistForm state nextId
    formSubmitted,  \* Null, or the list the form handed to onSubmit
    removes,        \* number of removeUser calls that removed an input
    picks,          \* number of handleSelectFollowingUser calls so far
    localStorage,   \* the browser's localStorage: key -> stored string
    clock,          \* Date.now() of the following-feature test service
    followLast,     \* the latest call of the following-feature test service
    advances        \* number of advances of clock so far

matchVars == <<userFilms, result, rendered>>
keyVars == <<filmA, filmB, keys>>
combVars == <<ids, subsets>>
cacheVars == <<now, watchlistCache, profileCache, enrichedCache, last, sets, ticks>>
mergeVars == <<baseFilms, enrichedList, merged>>
appVars == <<isLoading, appResult, appError, appUsernames, appProfiles, formKey,
             currentScrapingUsername, userProfiles, failedUsers, enrichmentQueue,
             tasks, requests, phase, resultReq, enrichStarted, lastUpdate,
             inFlight, matcherRuns, lastFetch>>
formVars == <<userInputs, nextId, formSubmitted, removes, picks>>
followVars == <<localStorage, clock, followLast, advances>>
vars == <<pc, userFilms, result, rendered, filmA, filmB, keys, ids, subsets,
          now, watchlistCache, profileCache, enrichedCache, last, sets, ticks,
          baseFilms, enrichedList, merged,
          isLoading, appResult, appError, appUsernames, appProfiles, formKey,
          currentScrapingUsername, userProfiles, failedUsers, enrichmentQueue,
          tasks, requests, phase, resultReq, enrichStarted, lastUpdate,
          inFlight, matcherRuns, lastFetch,
          userInputs, nextId, formSubmitted, removes, picks,
          localStorage, clock, followLast, advances>>

\* the variables that the specification of one part leaves alone
notMatchVars == <<keyVars, combVars, cacheVars, mergeVars, appVars, formVars, followVars>>
notKeyVars == <<matchVars, combVars, cacheVars, mergeVars, appVars, formVars, followVars>>
notCombVars == <<matchVars, keyVars, cacheVars, mergeVars, appVars, formVars, followVars>>
notCacheVars == <<matchVars, keyVars, combVars, mergeVars, appVars, formVars, followVars>>
notFormVars == <<matchVars, keyVars, combVars, cacheVars, mergeVars, appVars,
                followVars>>
notFollowVars == <<matchVars, keyVars, combVars, cacheVars, mergeVars, appVars,
                  formVars>>
notMergeVars == <<matchVars, keyVars, combVars, cacheVars, appVars, formVars, followVars>>

(***************************************************************************)
(* JavaScript string primitives.                                           *)
(***************************************************************************)
\* String.prototype.toLowerCase, one character
LowerChar(c) ==
    CASE c = "A" -> "a"
      [] c = "B" -> "b"
      [] c = "T" -> "t"
      [] OTHER -> c

\* String.prototype.toLowerCase
toLowerCase(s) == [i \in 1..Len(s) |-> LowerChar(s[i])]

RECURSIVE trimStart(_)
trimStart(s) ==
    IF s # <<>> /\ Head(s) = " " THEN trimStart(Tail(s)) ELSE s

RECURSIVE trimEnd(_)
trimEnd(s) ==
    IF s # <<>> /\ s[Len(s)] = " " THEN trimEnd(SubSeq(s, 1, Len(s) - 1)) ELSE s

\* String.prototype.trim
trim(s) == trimEnd(trimStart(s))

DigitChar(d) == <<"0", "1", "2", "3", "4", "5", "6", "7", "8", "9">>[d + 1]

\* Number -> string conversion of a template literal, for a natural number
RECURSIVE NumToString(_)
NumToString(n) ==
    IF n < 10 THEN <<DigitChar(n)>>
    ELSE NumToString(n \div 10) \o <<DigitChar(n % 10)>>

\* film.field is present (not undefined)
Has(film, field) == field \in DOMAIN film

\* JavaScript truthiness of an optional numeric field: undefined and 0 are falsy
Truthy(film, field) == Has(film, field) /\ film[field] # 0

(***************************************************************************)
(* matchService.ts                                                         *)
(***************************************************************************)
\* getFilmKey: film.tmdbId ? `tmdb:${film.tmdbId}`
\*                         : `${film.title.toLowerCase()}:${film.year || ''}`
getFilmKey(film) ==
    IF Truthy(film, "tmdbId")
    THEN <<"t", "m", "d", "b", ":">> \o NumToString(film.tmdbId)
    ELSE toLowerCase(film.title) \o <<":">>
         \o (IF Truthy(film, "year") THEN NumToString(film.year) ELSE <<>>)

\* generateCombinations, inner function combine(start, current): the subsets
\* pushed by this call, in push order.  combineLoop is the for loop from i.
RECURSIVE combine(_, _, _, _), combineLoop(_, _, _, _)
combineLoopSkipLast(items, minSize, i, current) ==
    IF i > Len(items) - 1 THEN <<>>
    ELSE combine(items, minSize, i + 1, Append(current, items[i]))
         \o combineLoop(items, minSize, i + 1, current)

combineLoop(items, minSize, i, current) ==
    IF i > Len(items) THEN <<>>
    ELSE combine(items, minSize, i + 1, Append(current, items[i]))
         \o combineLoop(items, minSize, i + 1, current)

combine(items, minSize, start, current) ==
    (IF Len(current) >= minSize THEN <<current>> ELSE <<>>)
    \o combineLoop(items, minSize, start, current)

generateCombinations(items, minSize) == combine(items, minSize, 1, <<>>)

\* userFilms.find(u => u.username === username); undefined gives []
RECURSIVE findUser(_, _)
findUser(uf, username) ==
    IF uf = <<>> THEN <<>>
    ELSE IF Head(uf).username = username THEN Head(uf).films
    ELSE findUser(Tail(uf), username)

\* userFilms.some(f => getFilmKey(f) === filmKey)
someKey(films, filmKey) == \E k \in 1..Len(films) : getFilmKey(films[k]) = filmKey

findCommonFilmsForGroupAnyOther(uf, usernames) ==
    IF Len(usernames) = 0 THEN <<>>
    ELSE
      LET groupFilms ==
              SelectSeq([i \in 1..Len(usernames) |-> findUser(uf, usernames[i])],
                        LAMBDA films : Len(films) > 0)
      IN  IF Len(groupFilms) = 0 THEN <<>>
          ELSE
            LET firstUserFilms == groupFilms[1]
                isCommon(film) ==
                    Len(groupFilms) = 1
                    \/ \E j \in 2..Len(groupFilms) :
                          someKey(groupFilms[j], getFilmKey(film))
            IN  SelectSeq(firstUserFilms, isCommon)

\* the entry of films that has the key filmKey, first match
instanceOf(films, filmKey) ==
    films[CHOOSE k \in 1..Len(films) :
             /\ getFilmKey(films[k]) = filmKey
             /\ \A m \in 1..(k - 1) : getFilmKey(films[m]) # filmKey]

findCommonFilmsForGroupLastInstance(uf, usernames) ==
    IF Len(usernames) = 0 THEN <<>>
    ELSE
      LET groupFilms ==
              SelectSeq([i \in 1..Len(usernames) |-> findUser(uf, usernames[i])],
                        LAMBDA films : Len(films) > 0)
      IN  IF Len(groupFilms) = 0 THEN <<>>
          ELSE
            LET firstUserFilms == groupFilms[1]
                isCommon(film) ==
                    \A j \in 2..Len(groupFilms) :
                        someKey(groupFilms[j], getFilmKey(film))
                common == SelectSeq(firstUserFilms, isCommon)
            IN  [k \in 1..Len(common) |->
                    instanceOf(groupFilms[Len(groupFilms)], getFilmKey(common[k]))]

findCommonFilmsForGroup(uf, usernames) ==
    IF Len(usernames) = 0 THEN <<>>
    ELSE
      LET groupFilms ==
              SelectSeq([i \in 1..Len(usernames) |-> findUser(uf, usernames[i])],
                        LAMBDA films : Len(films) > 0)
      IN  IF Len(groupFilms) = 0 THEN <<>>
          ELSE
            LET firstUserFilms == groupFilms[1]
                isCommon(film) ==
                    \A j \in 2..Len(groupFilms) :
                        someKey(groupFilms[j], getFilmKey(film))
            IN  SelectSeq(firstUserFilms, isCommon)

\* comparator of userGroups.sort: negative when a goes before b
compareGroups(a, b) ==
    IF Len(a.usernames) # Len(b.usernames)
    THEN Len(b.usernames) - Len(a.usernames)
    ELSE b.filmCount - a.filmCount

\* comparator of the per-section sort in MatchResults
compareFilmCount(a, b) == b.filmCount - a.filmCount

\* comparator of sortedUserCounts
compareDesc(a, b) == b - a

\* Array.prototype.sort (stable): insertion of x behind every element that
\* does not compare greater than it
sort(s, cmp(_, _)) ==
    LET RECURSIVE insertSorted(_, _)
        insertSorted(sorted, x) ==
            IF sorted = <<>> THEN <<x>>
            ELSE IF cmp(x, Head(sorted)) < 0 THEN <<x>> \o sorted
            ELSE <<Head(sorted)>> \o insertSorted(Tail(sorted), x)
        RECURSIVE sortPrefix(_)
        sortPrefix(n) ==
            IF n = 0 THEN <<>> ELSE insertSorted(sortPrefix(n - 1), s[n])
    IN  sortPrefix(Len(s))

usernamesOf(uf) == [i \in 1..Len(uf) |-> uf[i].username]

\* the userGroups of findCommonFilmsMultiUser before the sort
unsortedGroups(uf) ==
    LET combinations == generateCombinations(usernamesOf(uf), 2)
    IN  [c \in 1..Len(combinations) |->
            LET commonFilms == findCommonFilmsForGroup(uf, combinations[c])
            IN  [usernames |-> combinations[c],
                 commonFilms |-> commonFilms,
                 filmCount |-> Len(commonFilms)]]

watchlistCountsDistinct(uf) ==
    [u \in {uf[i].username : i \in 1..Len(uf)} |->
        LET final == CHOOSE i \in 1..Len(uf) :
                        /\ uf[i].username = u
                        /\ \A j \in (i + 1)..Len(uf) : uf[j].username # u
        IN  Cardinality({getFilmKey(uf[final].films[k]) :
                            k \in 1..Len(uf[final].films)})]

\* userWatchlistCounts: the forEach assigns in list order, the last one wins
watchlistCounts(uf) ==
    [u \in {uf[i].username : i \in 1..Len(uf)} |->
        LET final == CHOOSE i \in 1..Len(uf) :
                        /\ uf[i].username = u
                        /\ \A j \in (i + 1)..Len(uf) : uf[j].username # u
        IN  Len(uf[final].films)]

findCommonFilmsMultiUserUnsorted(uf) ==
    [userGroups |-> unsortedGroups(uf),
     userWatchlistCounts |-> watchlistCounts(uf)]

\* the list in reverse order
Reversed(s) == [i \in 1..Len(s) |-> s[Len(s) + 1 - i]]

findCommonFilmsMultiUserTiesReversed(uf) ==
    [userGroups |-> sort(Reversed(unsortedGroups(uf)), compareGroups),
     userWatchlistCounts |-> watchlistCounts(uf)]

findCommonFilmsMultiUser(uf) ==
    [userGroups |-> sort(unsortedGroups(uf), compareGroups),
     userWatchlistCounts |-> watchlistCounts(uf)]

(***************************************************************************)
(* cacheService.ts                                                         *)
(*                                                                         *)
(* A Map is the sequence of its entries in insertion order; an entry is    *)
(* [key, films, timestamp].  A string key is a sequence of characters, the *)
(* empty string stands for null where the code tests `if (oldestKey)`.     *)
(***************************************************************************)
MAX_WATCHLIST_CACHE_SIZE == 50
MAX_ENRICHED_CACHE_SIZE == 20
CACHE_TTL == 1000 * 60 * 60

NullKey == <<>>

\* the null a getter returns
Null == [isNull |-> TRUE]

Value(films) == [isNull |-> FALSE, films |-> films]

\* Map.prototype.has
mapHas(cache, key) == \E i \in 1..Len(cache) : cache[i].key = key

\* Map.prototype.get, for a key the map has
mapGet(cache, key) == cache[CHOOSE i \in 1..Len(cache) : cache[i].key = key]

\* Map.prototype.delete
mapDelete(cache, key) == SelectSeq(cache, LAMBDA e : e.key # key)

\* Map.prototype.set: a present key keeps its position, a new key goes last
mapSet(cache, key, films, timestamp) ==
    LET entry == [key |-> key, films |-> films, timestamp |-> timestamp]
    IN  IF mapHas(cache, key)
        THEN [i \in 1..Len(cache) |-> IF cache[i].key = key THEN entry ELSE cache[i]]
        ELSE Append(cache, entry)

\* getOldestKey: the loop over cache.entries(); best is the index of the entry
\* that oldestKey names, 0 while oldestKey is null and oldestTime is Infinity
RECURSIVE oldestScan(_, _, _), newestScan(_, _, _)
oldestScan(cache, i, best) ==
    IF i > Len(cache) THEN best
    ELSE IF best = 0 \/ cache[i].timestamp < cache[best].timestamp
         THEN oldestScan(cache, i + 1, i)
         ELSE oldestScan(cache, i + 1, best)

newestScan(cache, i, best) ==
    IF i > Len(cache) THEN best
    ELSE IF best = 0 \/ cache[i].timestamp > cache[best].timestamp
         THEN newestScan(cache, i + 1, i)
         ELSE newestScan(cache, i + 1, best)

getOldestKeyNewest(cache) ==
    LET best == newestScan(cache, 1, 0)
    IN  IF best = 0 THEN NullKey ELSE cache[best].key

getOldestKey(cache) ==
    LET best == oldestScan(cache, 1, 0)
    IN  IF best = 0 THEN NullKey ELSE cache[best].key

\* getWatchlist at time t: the store afterwards and the returned value
getWatchlistExpireAtTtl(cache, username, t) ==
    IF ~mapHas(cache, username) THEN [cache |-> cache, ret |-> Null]
    ELSE LET cached == mapGet(cache, username)
         IN  IF t - cached.timestamp >= CACHE_TTL
             THEN [cache |-> mapDelete(cache, username), ret |-> Null]
             ELSE [cache |-> cache, ret |-> Value(cached.films)]

getWatchlistRefresh(cache, username, t) ==
    IF ~mapHas(cache, username) THEN [cache |-> cache, ret |-> Null]
    ELSE LET cached == mapGet(cache, username)
         IN  IF t - cached.timestamp > CACHE_TTL
             THEN [cache |-> mapDelete(cache, username), ret |-> Null]
             ELSE [cache |-> mapSet(cache, username, cached.films, t),
                   ret |-> Value(cached.films)]

getWatchlist(cache, username, t) ==
    IF ~mapHas(cache, username) THEN [cache |-> cache, ret |-> Null]
    ELSE LET cached == mapGet(cache, username)
         IN  IF t - cached.timestamp > CACHE_TTL
             THEN [cache |-> mapDelete(cache, username), ret |-> Null]
             ELSE [cache |-> cache, ret |-> Value(cached.films)]

setWatchlistOnlyNewKeys(cache, username, films, t) ==
    LET oldestKey == getOldestKey(cache)
        evicted == IF /\ Len(cache) >= MAX_WATCHLIST_CACHE_SIZE
                      /\ ~mapHas(cache, username)
                      /\ oldestKey # NullKey
                   THEN mapDelete(cache, oldestKey)
                   ELSE cache
    IN  mapSet(evicted, username, films, t)

setWatchlistEvictAbove(cache, username, films, t) ==
    LET oldestKey == getOldestKey(cache)
        evicted == IF Len(cache) > MAX_WATCHLIST_CACHE_SIZE /\ oldestKey # NullKey
                   THEN mapDelete(cache, oldestKey)
                   ELSE cache
    IN  mapSet(evicted, username, films, t)

\* setWatchlist at time t: the store afterwards
setWatchlist(cache, username, films, t) ==
    LET oldestKey == getOldestKey(cache)
        evicted == IF Len(cache) >= MAX_WATCHLIST_CACHE_SIZE /\ oldestKey # NullKey
                   THEN mapDelete(cache, oldestKey)
                   ELSE cache
    IN  mapSet(evicted, username, films, t)

\* getEnrichedData at time t: the store afterwards and the returned value
getEnrichedData(cache, username, t) ==
    IF ~mapHas(cache, username) THEN [cache |-> cache, ret |-> Null]
    ELSE LET cached == mapGet(cache, username)
         IN  IF t - cached.timestamp > CACHE_TTL
             THEN [cache |-> mapDelete(cache, username), ret |-> Null]
             ELSE [cache |-> cache, ret |-> Value(cached.films)]

\* setEnrichedData at time t: the store afterwards
setEnrichedData(cache, username, films, t) ==
    LET oldestKey == getOldestKey(cache)
        evicted == IF Len(cache) >= MAX_ENRICHED_CACHE_SIZE /\ oldestKey # NullKey
                   THEN mapDelete(cache, oldestKey)
                   ELSE cache
    IN  mapSet(evicted, username, films, t)

\* getProfile at time t: the store afterwards and the returned value
getProfile(cache, username, t) ==
    IF ~mapHas(cache, username) THEN [cache |-> cache, ret |-> Null]
    ELSE LET cached == mapGet(cache, username)
         IN  IF t - cached.timestamp > CACHE_TTL
             THEN [cache |-> mapDelete(cache, username), ret |-> Null]
             ELSE [cache |-> cache,
                   ret |-> [isNull |-> FALSE, profile |-> cached.profile]]

\* setProfile at time t: the store afterwards; the profile store has no cap
setProfile(cache, username, profile, t) ==
    LET entry == [key |-> username, profile |-> profile, timestamp |-> t]
    IN  IF mapHas(cache, username)
        THEN [i \in 1..Len(cache) |-> IF cache[i].key = username THEN entry ELSE cache[i]]
        ELSE Append(cache, entry)

\* SessionCache.getFilmKey (private):
\* `${film.title.toLowerCase().trim()}-${film.year || 'unknown'}`
SessionCache_getFilmKey(film) ==
    trim(toLowerCase(film.title)) \o <<"-">>
    \o (IF Truthy(film, "year") THEN NumToString(film.year)
        ELSE <<"u", "n", "k", "n", "o", "w", "n">>)

\* the cache key of a single film: `film-${filmKey}`
FilmPrefix == <<"f", "i", "l", "m", "-">>

FilmCacheKey(film) == FilmPrefix \o SessionCache_getFilmKey(film)

\* String.prototype.startsWith
startsWith(s, prefix) ==
    Len(s) >= Len(prefix) /\ SubSeq(s, 1, Len(prefix)) = prefix

\* cached.films.find(f => this.getFilmKey(f) === filmKey) || null
findFilm(films, filmKey) ==
    IF \E k \in 1..Len(films) : SessionCache_getFilmKey(films[k]) = filmKey
    THEN [isNull |-> FALSE,
          film |-> films[CHOOSE k \in 1..Len(films) :
                            /\ SessionCache_getFilmKey(films[k]) = filmKey
                            /\ \A j \in 1..(k - 1) :
                                  SessionCache_getFilmKey(films[j]) # filmKey]]
    ELSE Null

\* getEnrichedFilm at time t: the store afterwards and the returned value
getEnrichedFilm(cache, film, t) ==
    LET filmKey == SessionCache_getFilmKey(film)
        cacheKey == FilmCacheKey(film)
    IN  IF ~mapHas(cache, cacheKey) THEN [cache |-> cache, ret |-> Null]
        ELSE LET cached == mapGet(cache, cacheKey)
             IN  IF t - cached.timestamp > CACHE_TTL
                 THEN [cache |-> mapDelete(cache, cacheKey), ret |-> Null]
                 ELSE [cache |-> cache, ret |-> findFilm(cached.films, filmKey)]

\* setEnrichedFilm at time t: the store afterwards.  The oldest entry is
\* evicted only when its key does not start with "film-".
setEnrichedFilm(cache, film, t) ==
    LET oldestKey == getOldestKey(cache)
        evicted == IF /\ Len(cache) >= MAX_ENRICHED_CACHE_SIZE
                      /\ oldestKey # NullKey
                      /\ ~startsWith(oldestKey, FilmPrefix)
                   THEN mapDelete(cache, oldestKey)
                   ELSE cache
    IN  mapSet(evicted, FilmCacheKey(film), <<film>>, t)

\* JavaScript truthiness of an optional string field: undefined and '' are falsy
TruthyStr(film, field) == Has(film, field) /\ film[field] # ""

\* the fields that the merge assigns from the enriched film without a fallback
OverwrittenFields ==
    {"plot", "director", "cast", "genre", "rating", "runtime", "trailerUrl"}

\* enrichedMap.get(key): the forEach sets in list order, the last film with
\* the key wins; a one-element list, or the empty list for undefined
enrichedMapGet(enrichedFilms, key) ==
    LET hits == {k \in 1..Len(enrichedFilms) :
                    SessionCache_getFilmKey(enrichedFilms[k]) = key}
    IN  IF hits = {} THEN <<>>
        ELSE <<enrichedFilms[CHOOSE k \in hits : \A j \in hits : j <= k]>>

\* { ...film, posterUrl: enriched.posterUrl || film.posterUrl,
\*   plot: enriched.plot, ..., trailerUrl: enriched.trailerUrl }
\* with the base poster preferred
mergeFilmBasePoster(film, enriched) ==
    LET poster == IF TruthyStr(film, "posterUrl") THEN <<film.posterUrl>>
                  ELSE IF Has(enriched, "posterUrl") THEN <<enriched.posterUrl>>
                  ELSE <<>>
        fields == ((DOMAIN film) \ (OverwrittenFields \cup {"posterUrl"}))
                  \cup {f \in OverwrittenFields : Has(enriched, f)}
                  \cup (IF poster # <<>> THEN {"posterUrl"} ELSE {})
    IN  [f \in fields |->
            IF f = "posterUrl" THEN poster[1]
            ELSE IF f \in OverwrittenFields THEN enriched[f]
            ELSE film[f]]

\* { ...film, posterUrl: enriched.posterUrl || film.posterUrl,
\*   plot: enriched.plot, ..., trailerUrl: enriched.trailerUrl }
\* A field whose value is undefined is an absent field.
mergeFilm(film, enriched) ==
    LET poster == IF TruthyStr(enriched, "posterUrl") THEN <<enriched.posterUrl>>
                  ELSE IF Has(film, "posterUrl") THEN <<film.posterUrl>>
                  ELSE <<>>
        fields == ((DOMAIN film) \ (OverwrittenFields \cup {"posterUrl"}))
                  \cup {f \in OverwrittenFields : Has(enriched, f)}
                  \cup (IF poster # <<>> THEN {"posterUrl"} ELSE {})
    IN  [f \in fields |->
            IF f = "posterUrl" THEN poster[1]
            ELSE IF f \in OverwrittenFields THEN enriched[f]
            ELSE film[f]]

\* mergeEnrichedDataIntoFilms with the year left out of the key of a match
mergeEnrichedDataIntoFilmsByTitle(films, enrichedFilms) ==
    [i \in 1..Len(films) |->
        LET hits == {k \in 1..Len(enrichedFilms) :
                        trim(toLowerCase(enrichedFilms[k].title))
                            = trim(toLowerCase(films[i].title))}
        IN  IF hits = {} THEN films[i]
            ELSE mergeFilm(films[i],
                           enrichedFilms[CHOOSE k \in hits : \A j \in hits : j <= k])]

\* mergeEnrichedDataIntoFilms: films.map over the base list
mergeEnrichedDataIntoFilms(films, enrichedFilms) ==
    [i \in 1..Len(films) |->
        LET enriched == enrichedMapGet(enrichedFilms, SessionCache_getFilmKey(films[i]))
        IN  IF enriched # <<>> THEN mergeFilm(films[i], enriched[1]) ELSE films[i]]

(***************************************************************************)
(* App.tsx: handleSubmit, handleReset and enrichCommonFilmsInBackground    *)
(***************************************************************************)
\* film.imdbId && !film.posterUrl
needsEnrichment(film) == TruthyStr(film, "imdbId") /\ ~TruthyStr(film, "posterUrl")

\* the key of the enrichment loop:
\* `${film.title.toLowerCase().trim()}-${film.year || 'unknown'}`
enrichKey(film) ==
    trim(toLowerCase(film.title)) \o <<"-">>
    \o (IF Truthy(film, "year") THEN NumToString(film.year)
        ELSE <<"u", "n", "k", "n", "o", "w", "n">>)

\* the key of the queue filled during the fetch loop:
\* `${film.title.toLowerCase()}-${film.year || ''}`
queueKey(film) ==
    toLowerCase(film.title) \o <<"-">>
    \o (IF Truthy(film, "year") THEN NumToString(film.year) ELSE <<>>)

\* findCommonFilmsAcrossUsers: the films of the current owner whose key some
\* previous owner has
findCommonFilmsAcrossUsers(previousUsers, currentFilms) ==
    LET previousFilmsSet ==
            UNION {{getFilmKey(previousUsers[u].films[k]) :
                        k \in 1..Len(previousUsers[u].films)} :
                   u \in 1..Len(previousUsers)}
    IN  SelectSeq(currentFilms, LAMBDA film : getFilmKey(film) \in previousFilmsSet)

\* commonFilms.forEach of the fetch loop: a film that needs enrichment is
\* pushed unless a film with its key was pushed before
RECURSIVE queueFilms(_, _)
queueFilms(queue, commonFilms) ==
    IF commonFilms = <<>> THEN queue
    ELSE LET film == Head(commonFilms)
         IN  IF /\ needsEnrichment(film)
                /\ \A q \in 1..Len(queue) : queueKey(queue[q]) # queueKey(film)
             THEN queueFilms(Append(queue, film), Tail(commonFilms))
             ELSE queueFilms(queue, Tail(commonFilms))

\* the two forEach loops that fill the Map filmsToEnrich: a film that needs
\* enrichment is added unless the Map has its key
RECURSIVE addFilmsToEnrich(_, _)
addFilmsToEnrich(list, candidates) ==
    IF candidates = <<>> THEN list
    ELSE LET film == Head(candidates)
         IN  IF /\ needsEnrichment(film)
                /\ \A q \in 1..Len(list) : enrichKey(list[q]) # enrichKey(film)
             THEN addFilmsToEnrich(Append(list, film), Tail(candidates))
             ELSE addFilmsToEnrich(list, Tail(candidates))

\* the commonFilms of all groups, group after group
RECURSIVE allCommonFilms(_)
allCommonFilms(userGroups) ==
    IF userGroups = <<>> THEN <<>>
    ELSE Head(userGroups).commonFilms \o allCommonFilms(Tail(userGroups))

\* Array.from(filmsToEnrich.values())
filmsToEnrich(matchResult, initialQueue) ==
    addFilmsToEnrich(addFilmsToEnrich(<<>>, allCommonFilms(matchResult.userGroups)),
                     initialQueue)

\* { ...f, posterUrl: enriched.posterUrl }
setPoster(f, posterUrl) ==
    [x \in (DOMAIN f) \cup {"posterUrl"} |->
        IF x = "posterUrl" THEN posterUrl ELSE f[x]]

\* the updater with the matching films kept and the other films dropped
applyPosterKeepMatching(prevResult, filmKey, posterUrl) ==
    IF prevResult = Null THEN prevResult
    ELSE [prevResult EXCEPT !.userGroups =
            [g \in 1..Len(prevResult.userGroups) |->
                [prevResult.userGroups[g] EXCEPT !.commonFilms =
                    LET films == prevResult.userGroups[g].commonFilms
                        kept == SelectSeq(films, LAMBDA f : enrichKey(f) = filmKey)
                    IN  [k \in 1..Len(kept) |-> setPoster(kept[k], posterUrl)]]]]

\* the updater passed to setResult when a poster was found
applyPoster(prevResult, filmKey, posterUrl) ==
    IF prevResult = Null THEN prevResult
    ELSE [prevResult EXCEPT !.userGroups =
            [g \in 1..Len(prevResult.userGroups) |->
                [prevResult.userGroups[g] EXCEPT !.commonFilms =
                    LET films == prevResult.userGroups[g].commonFilms
                    IN  [k \in 1..Len(films) |->
                            IF enrichKey(films[k]) = filmKey
                            THEN setPoster(films[k], posterUrl)
                            ELSE films[k]]]]]

\* the enrichment loop from film i up to its next await: every film whose
\* poster is cached updates the result at once; the loop stops at the first
\* film that has to be looked up (i <= Len(films)) or at the end
RECURSIVE enrichLoop(_, _, _, _, _)
enrichLoop(cache, res, films, i, t) ==
    IF i > Len(films) THEN [cache |-> cache, result |-> res, i |-> i]
    ELSE LET r == getEnrichedFilm(cache, films[i], t)
         IN  IF r.ret # Null /\ TruthyStr(r.ret.film, "posterUrl")
             THEN enrichLoop(r.cache,
                             applyPoster(res, enrichKey(films[i]), r.ret.film.posterUrl),
                             films, i + 1, t)
             ELSE [cache |-> r.cache, result |-> res, i |-> i]

(***************************************************************************)
(* MatchResults.tsx: the order in which the groups are displayed           *)
(***************************************************************************)
\* groupsByUserCount[count]: the groups with that many members, in list order
groupsByUserCount(userGroups, count) ==
    SelectSeq(userGroups, LAMBDA g : Len(g.usernames) = count)

RECURSIVE SetToSeq(_)
SetToSeq(S) ==
    IF S = {} THEN <<>>
    ELSE LET m == CHOOSE x \in S : \A y \in S : x <= y
         IN  <<m>> \o SetToSeq(S \ {m})

\* Object.keys(groupsByUserCount).map(Number).sort((a, b) => b - a)
sortedUserCounts(userGroups) ==
    sort(SetToSeq({Len(userGroups[i].usernames) : i \in 1..Len(userGroups)}),
         compareDesc)

RECURSIVE renderSections(_, _)
renderSections(userGroups, counts) ==
    IF counts = <<>> THEN <<>>
    ELSE sort(groupsByUserCount(userGroups, Head(counts)), compareFilmCount)
         \o renderSections(userGroups, Tail(counts))

renderGroups(userGroups) == renderSections(userGroups, sortedUserCounts(userGroups))

(***************************************************************************)
(* Inputs                                                                  *)
(***************************************************************************)
\* the owners of a comparison, in submission order
Owners == <<"alice", "bob", "carol">>

\* owner ids for the combination generator
IdNames == <<"alice", "bob", "carol", "dave", "erin", "frank", "grace">>

\* The catalog entries the matcher is run on.  The first two differ as
\* objects and have the same comparison key.
MatchFilms ==
    { [title |-> <<"a">>],
      [title |-> <<"A">>, posterUrl |-> "p"],
      [title |-> <<"b">>, tmdbId |-> 5] }

RECURSIVE SeqsUpTo(_, _)
SeqsUpTo(S, n) ==
    IF n = 0 THEN {<<>>}
    ELSE LET shorter == SeqsUpTo(S, n - 1)
         IN  shorter \cup {Append(s, x) : s \in {t \in shorter : Len(t) = n - 1}, x \in S}

Catalogs == SeqsUpTo(MatchFilms, MaxFilms)

\* Titles as fetchWatchlist produces them: trimmed and not empty
Titles == { <<"a">>, <<"A">>, <<"a", " ", "B">>, <<"T", "m", "d", "b">> }
Years == {5, 12}
TmdbIds == {5, 12}

KeyFilms ==
    {[title |-> t] : t \in Titles}
    \cup {[title |-> t, year |-> y] : t \in Titles, y \in Years}
    \cup {[title |-> t, tmdbId |-> d] : t \in Titles, d \in TmdbIds}
    \cup {[title |-> t, year |-> y, tmdbId |-> d] :
            t \in Titles, y \in Years, d \in TmdbIds}

NoResult == [userGroups |-> <<>>, userWatchlistCounts |-> <<>>]
NoFilm == [title |-> <<>>]
NoCall == [op |-> "none"]

NoUpdate == [op |-> "none"]

\* the App state of a specification that runs no comparison: the useState
\* initial values
AppIdle ==
    /\ isLoading = FALSE
    /\ appResult = Null
    /\ appError = Null
    /\ appUsernames = <<>>
    /\ appProfiles = <<>>
    /\ formKey = 0
    /\ currentScrapingUsername = Null
    /\ userProfiles = <<>>
    /\ failedUsers = <<>>
    /\ enrichmentQueue = <<>>
    /\ tasks = <<>>
    /\ requests = 0
    /\ phase = "idle"
    /\ resultReq = 0
    /\ enrichStarted = {}
    /\ lastUpdate = NoUpdate
    /\ inFlight = {}
    /\ matcherRuns = <<>>
    /\ lastFetch = NoUpdate

\* the form of a specification that shows no form
FormIdle ==
    /\ userInputs = <<>>
    /\ nextId = 0
    /\ formSubmitted = Null
    /\ removes = 0
    /\ picks = 0

\* the test service of a specification that never calls it
FollowIdle ==
    /\ localStorage = <<>>
    /\ clock = 0
    /\ followLast = NoCall
    /\ advances = 0

\* the merge variables of a specification that does not merge
MergeIdle ==
    /\ baseFilms = <<>>
    /\ enrichedList = <<>>
    /\ merged = <<>>

\* the cache of a specification that makes no cache call
CacheIdle ==
    /\ now = 0
    /\ watchlistCache = <<>>
    /\ profileCache = <<>>
    /\ enrichedCache = <<>>
    /\ last = NoCall
    /\ sets = 0
    /\ ticks = 0

(***************************************************************************)
(* Specification of the matcher: one comparison, then its display          *)
(***************************************************************************)
InitMatch ==
    /\ pc = "input"
    /\ AppIdle
    /\ FormIdle
    /\ FollowIdle
    /\ MergeIdle
    /\ \E n \in 0..Len(Owners) :
         \E cat \in [1..n -> Catalogs] :
            userFilms = [i \in 1..n |-> [username |-> Owners[i], films |-> cat[i]]]
    /\ result = NoResult
    /\ rendered = <<>>
    /\ filmA = NoFilm /\ filmB = NoFilm /\ keys = <<>>
    /\ ids = <<>> /\ subsets = <<>>
    /\ CacheIdle

Match ==
    /\ pc = "input"
    /\ result' = findCommonFilmsMultiUser(userFilms)
    /\ pc' = "matched"
    /\ UNCHANGED <<userFilms, rendered>>
    /\ UNCHANGED notMatchVars

Render ==
    /\ pc = "matched"
    /\ rendered' = renderGroups(result.userGroups)
    /\ pc' = "rendered"
    /\ UNCHANGED <<userFilms, result>>
    /\ UNCHANGED notMatchVars

NextMatch == Match \/ Render

SpecMatch == InitMatch /\ [][NextMatch]_vars

(***************************************************************************)
(* Specification of the comparison key: two entries, then their keys       *)
(***************************************************************************)
InitKey ==
    /\ pc = "films"
    /\ AppIdle
    /\ FormIdle
    /\ FollowIdle
    /\ MergeIdle
    /\ filmA \in KeyFilms
    /\ filmB \in KeyFilms
    /\ keys = <<>>
    /\ userFilms = <<>> /\ result = NoResult /\ rendered = <<>>
    /\ ids = <<>> /\ subsets = <<>>
    /\ CacheIdle

ComputeKeys ==
    /\ pc = "films"
    /\ keys' = <<getFilmKey(filmA), getFilmKey(filmB)>>
    /\ pc' = "keys"
    /\ UNCHANGED <<filmA, filmB>>
    /\ UNCHANGED notKeyVars

NextKey == ComputeKeys

SpecKey == InitKey /\ [][NextKey]_vars

(***************************************************************************)
(* Specification of the combination generator: an ordered list of distinct *)
(* owner ids, then the subsets generateCombinations(items, 2) returns      *)
(***************************************************************************)
Ids == {IdNames[i] : i \in 1..MaxIds}

RangeOf(s) == {s[i] : i \in 1..Len(s)}

IsInjective(s) == \A i, j \in 1..Len(s) : i # j => s[i] # s[j]

InitComb ==
    /\ pc = "ids"
    /\ AppIdle
    /\ FormIdle
    /\ FollowIdle
    /\ MergeIdle
    /\ ids \in {s \in SeqsUpTo(Ids, MaxIds) : IsInjective(s)}
    /\ subsets = <<>>
    /\ userFilms = <<>> /\ result = NoResult /\ rendered = <<>>
    /\ filmA = NoFilm /\ filmB = NoFilm /\ keys = <<>>
    /\ CacheIdle

Generate ==
    /\ pc = "ids"
    /\ subsets' = generateCombinations(ids, 2)
    /\ pc' = "subsets"
    /\ UNCHANGED ids
    /\ UNCHANGED notCombVars

NextComb == Generate

SpecComb == InitComb /\ [][NextComb]_vars

(***************************************************************************)
(* Specification of the session cache: the clock advances and the getters  *)
(* and setters of the watchlist store and of the enriched store are called *)
(* in any order                                                            *)
(***************************************************************************)
\* the key of owner number i: "u" followed by the number
UserKey(i) == <<"u">> \o NumToString(i)

\* the key of enriched dataset number i: "common-" followed by the number
DataKey(i) == <<"c", "o", "m", "m", "o", "n", "-">> \o NumToString(i)

\* the values stored: two different lists of films
CachedFilms == {<<[title |-> <<"a">>]>>, <<>>}

\* clock advances: exactly the time to live, or one millisecond more
TickSteps == {CACHE_TTL, CACHE_TTL + 1}

\* the keys of the single calls: one a batch stores (for watchlists the second
\* oldest, for datasets the oldest) and one that a batch never stores
WatchlistKeys == {UserKey(2), UserKey(MAX_WATCHLIST_CACHE_SIZE + 1)}

EnrichedKeys == {DataKey(1), DataKey(MAX_ENRICHED_CACHE_SIZE + 1)}

\* the value a batch stores
BatchFilms == <<[title |-> <<"a">>]>>

\* n consecutive setWatchlist calls for owners 1..n, one millisecond apart,
\* the first at time t
RECURSIVE setWatchlistsFrom(_, _, _, _, _)
setWatchlistsFrom(cache, i, n, films, t) ==
    IF i > n THEN cache
    ELSE LET stored == setWatchlist(cache, UserKey(i), films, t + i - 1)
         IN  \* the test has TLC evaluate the store before the next call
             IF mapHas(stored, UserKey(i))
             THEN setWatchlistsFrom(stored, i + 1, n, films, t)
             ELSE stored

setWatchlists(cache, n, films, t) == setWatchlistsFrom(cache, 1, n, films, t)

\* n consecutive setEnrichedData calls for datasets 1..n, one millisecond
\* apart, the first at time t
RECURSIVE setEnrichedDatasFrom(_, _, _, _, _)
setEnrichedDatasFrom(cache, i, n, films, t) ==
    IF i > n THEN cache
    ELSE LET stored == setEnrichedData(cache, DataKey(i), films, t + i - 1)
         IN  \* the test has TLC evaluate the store before the next call
             IF mapHas(stored, DataKey(i))
             THEN setEnrichedDatasFrom(stored, i + 1, n, films, t)
             ELSE stored

setEnrichedDatas(cache, n, films, t) == setEnrichedDatasFrom(cache, 1, n, films, t)

\* the profile fetchUserProfile resolves with (it does not throw)
FetchedProfile(username) == [username |-> username, avatarUrl |-> "avatar"]

\* the owner whose profile the single calls store and read
ProfileKeys == {UserKey(1)}

\* the three Maps of a SessionCache
SessionCacheOf(w, p, e) == [watchlistCache |-> w, profileCache |-> p, enrichedCache |-> e]

clearEnrichedCacheAll(self) ==
    [watchlistCache |-> <<>>, profileCache |-> <<>>, enrichedCache |-> <<>>]

\* Map.prototype.clear on the enriched Map only
clearEnrichedCache(self) == [self EXCEPT !.enrichedCache = <<>>]

InitCache ==
    /\ pc = "cache"
    /\ AppIdle
    /\ FormIdle
    /\ FollowIdle
    /\ MergeIdle
    /\ now = 0
    /\ watchlistCache = <<>>
    /\ profileCache = <<>>
    /\ enrichedCache = <<>>
    /\ last = NoCall
    /\ sets = 0
    /\ ticks = 0
    /\ userFilms = <<>> /\ result = NoResult /\ rendered = <<>>
    /\ filmA = NoFilm /\ filmB = NoFilm /\ keys = <<>>
    /\ ids = <<>> /\ subsets = <<>>

Idle == UNCHANGED <<pc, notCacheVars>>

\* the specifications that call the session cache
CacheRunning == pc \in {"cache", "enriched"}

Tick ==
    /\ CacheRunning
    /\ ticks < MaxTicks
    /\ \E d \in TickSteps : now' = now + d
    /\ ticks' = ticks + 1
    /\ UNCHANGED <<profileCache, watchlistCache, enrichedCache, last, sets>>
    /\ Idle

GetWatchlist ==
    /\ pc = "cache"
    /\ \E username \in WatchlistKeys :
         LET r == getWatchlist(watchlistCache, username, now)
         IN  /\ watchlistCache' = r.cache
             /\ last' = [op |-> "get", store |-> "watchlist", key |-> username,
                         ret |-> r.ret, at |-> now, before |-> watchlistCache]
    /\ UNCHANGED <<profileCache, now, enrichedCache, sets, ticks>>
    /\ Idle

SetWatchlist ==
    /\ pc = "cache"
    /\ sets < MaxSets
    /\ \E username \in WatchlistKeys, films \in CachedFilms :
         /\ watchlistCache' = setWatchlist(watchlistCache, username, films, now)
         /\ last' = [op |-> "set", store |-> "watchlist", key |-> username,
                     films |-> films, at |-> now, before |-> watchlistCache]
    /\ sets' = sets + 1
    /\ UNCHANGED <<profileCache, now, enrichedCache, ticks>>
    /\ Idle

\* a batch of setWatchlist calls that fills the empty store up to its cap,
\* before the single calls and the clock advances
SetWatchlists ==
    /\ pc = "cache"
    /\ watchlistCache = <<>>
    /\ sets = 0 /\ ticks = 0
    /\ LET n == MAX_WATCHLIST_CACHE_SIZE
           films == BatchFilms
       IN
         /\ watchlistCache' = setWatchlists(watchlistCache, n, films, now)
         /\ now' = now + n - 1
         /\ last' = [op |-> "sets", store |-> "watchlist", count |-> n,
                     films |-> films, at |-> now, before |-> watchlistCache]
    /\ UNCHANGED <<profileCache, enrichedCache, sets, ticks>>
    /\ Idle

GetEnrichedData ==
    /\ CacheRunning
    /\ \E username \in EnrichedKeys :
         LET r == getEnrichedData(enrichedCache, username, now)
         IN  /\ enrichedCache' = r.cache
             /\ last' = [op |-> "get", store |-> "enriched", key |-> username,
                         ret |-> r.ret, at |-> now, before |-> enrichedCache]
    /\ UNCHANGED <<profileCache, now, watchlistCache, sets, ticks>>
    /\ Idle

SetEnrichedData ==
    /\ CacheRunning
    /\ sets < MaxSets
    /\ \E username \in EnrichedKeys, films \in CachedFilms :
         /\ enrichedCache' = setEnrichedData(enrichedCache, username, films, now)
         /\ last' = [op |-> "set", store |-> "enriched", key |-> username,
                     films |-> films, at |-> now, before |-> enrichedCache]
    /\ sets' = sets + 1
    /\ UNCHANGED <<profileCache, now, watchlistCache, ticks>>
    /\ Idle

\* a batch of setEnrichedData calls that fills a store holding no dataset up
\* to its cap, before the single calls and the clock advances
SetEnrichedDatas ==
    /\ CacheRunning
    /\ Len(enrichedCache) < MAX_ENRICHED_CACHE_SIZE
    /\ \A i \in 1..Len(enrichedCache) : startsWith(enrichedCache[i].key, FilmPrefix)
    /\ sets = 0 /\ ticks = 0
    /\ LET n == MAX_ENRICHED_CACHE_SIZE - Len(enrichedCache)
           films == BatchFilms
       IN
         /\ enrichedCache' = setEnrichedDatas(enrichedCache, n, films, now)
         /\ now' = now + n - 1
         /\ last' = [op |-> "sets", store |-> "enriched", count |-> n,
                     films |-> films, at |-> now, before |-> enrichedCache]
    /\ UNCHANGED <<profileCache, watchlistCache, sets, ticks>>
    /\ Idle

GetProfile ==
    /\ pc = "cache"
    /\ \E username \in ProfileKeys :
         LET r == getProfile(profileCache, username, now)
         IN  /\ profileCache' = r.cache
             /\ last' = [op |-> "getProfile", store |-> "profile", key |-> username,
                         ret |-> r.ret, at |-> now, before |-> profileCache]
    /\ UNCHANGED <<watchlistCache, now, enrichedCache, sets, ticks>>
    /\ Idle

SetProfile ==
    /\ pc = "cache"
    /\ sets < MaxSets
    /\ \E username \in ProfileKeys :
         /\ profileCache' = setProfile(profileCache, username, FetchedProfile(username), now)
         /\ last' = [op |-> "setProfile", store |-> "profile", key |-> username,
                     at |-> now, before |-> profileCache]
    /\ sets' = sets + 1
    /\ UNCHANGED <<watchlistCache, now, enrichedCache, ticks>>
    /\ Idle

\* clearEnrichedCache, once the single calls or the clock advances have begun
ClearEnrichedCache ==
    /\ pc = "cache"
    /\ sets > 0 \/ ticks > 0
    /\ LET self == SessionCacheOf(watchlistCache, profileCache, enrichedCache)
           cleared == clearEnrichedCache(self)
       IN
         /\ watchlistCache' = cleared.watchlistCache
         /\ profileCache' = cleared.profileCache
         /\ enrichedCache' = cleared.enrichedCache
         /\ last' = [op |-> "clearEnriched", store |-> "enriched", at |-> now,
                     before |-> self]
    /\ UNCHANGED <<now, sets, ticks>>
    /\ Idle

NextCache ==
    \/ Tick
    \/ GetProfile
    \/ SetProfile
    \/ ClearEnrichedCache
    \/ GetWatchlist
    \/ SetWatchlist
    \/ SetWatchlists
    \/ GetEnrichedData
    \/ SetEnrichedData
    \/ SetEnrichedDatas

SpecCache == InitCache /\ [][NextCache]_vars

(***************************************************************************)
(* Specification of the enriched store: datasets and single films are set  *)
(* and read in any order while the clock advances                          *)
(***************************************************************************)
\* films as enrichFilmPosterFromTMDB returns them, with different keys
EnrichedFilms ==
    { [title |-> <<"a">>, posterUrl |-> "p"],
      [title |-> <<"b">>, year |-> 5, posterUrl |-> "p"] }

InitEnriched ==
    /\ pc = "enriched"
    /\ AppIdle
    /\ FormIdle
    /\ FollowIdle
    /\ MergeIdle
    /\ CacheIdle
    /\ userFilms = <<>> /\ result = NoResult /\ rendered = <<>>
    /\ filmA = NoFilm /\ filmB = NoFilm /\ keys = <<>>
    /\ ids = <<>> /\ subsets = <<>>

GetEnrichedFilm ==
    /\ pc = "enriched"
    /\ \E film \in EnrichedFilms :
         LET r == getEnrichedFilm(enrichedCache, film, now)
         IN  /\ enrichedCache' = r.cache
             /\ last' = [op |-> "getFilm", store |-> "enriched",
                         key |-> FilmCacheKey(film), ret |-> r.ret,
                         at |-> now, before |-> enrichedCache]
    /\ UNCHANGED <<profileCache, now, watchlistCache, sets, ticks>>
    /\ Idle

SetEnrichedFilm ==
    /\ pc = "enriched"
    /\ Len(enrichedCache) <= MAX_ENRICHED_CACHE_SIZE
    /\ \E film \in EnrichedFilms :
         /\ enrichedCache' = setEnrichedFilm(enrichedCache, film, now)
         /\ last' = [op |-> "setFilm", store |-> "enriched",
                     key |-> FilmCacheKey(film), film |-> film,
                     at |-> now, before |-> enrichedCache]
    /\ UNCHANGED <<profileCache, now, watchlistCache, sets, ticks>>
    /\ Idle

NextEnriched ==
    \/ Tick
    \/ GetEnrichedData
    \/ SetEnrichedData
    \/ SetEnrichedDatas
    \/ GetEnrichedFilm
    \/ SetEnrichedFilm

SpecEnriched == InitEnriched /\ [][NextEnriched]_vars

(***************************************************************************)
(* Specification of the merge: a base list and an enriched list, then the  *)
(* list mergeEnrichedDataIntoFilms returns                                 *)
(***************************************************************************)
\* base entries: bare, with a poster and a synopsis, with a year and an id
MergeBaseFilms ==
    { [title |-> <<"a">>],
      [title |-> <<"A">>, posterUrl |-> "p", plot |-> "s"],
      [title |-> <<"a">>, year |-> 5, tmdbId |-> 5, director |-> "d"],
      [title |-> <<"b">>, year |-> 12, posterUrl |-> "p"] }

\* enriched entries: a poster alone, every field but the poster under an
\* untrimmed title, a poster and a synopsis for the entry with a year, a
\* synopsis alone
MergeEnrichedFilms ==
    { [title |-> <<"a">>, posterUrl |-> "q"],
      [title |-> <<"A", " ">>, plot |-> "t", director |-> "e", cast |-> "c",
       genre |-> "g", rating |-> "r", runtime |-> "m", trailerUrl |-> "v"],
      [title |-> <<"a">>, year |-> 5, posterUrl |-> "q", plot |-> "t"],
      [title |-> <<"B">>, year |-> 12, plot |-> "t"] }

InitMerge ==
    /\ pc = "merge"
    /\ AppIdle
    /\ FormIdle
    /\ FollowIdle
    /\ baseFilms \in SeqsUpTo(MergeBaseFilms, MaxMerge)
    /\ enrichedList \in SeqsUpTo(MergeEnrichedFilms, MaxMerge)
    /\ merged = <<>>
    /\ userFilms = <<>> /\ result = NoResult /\ rendered = <<>>
    /\ filmA = NoFilm /\ filmB = NoFilm /\ keys = <<>>
    /\ ids = <<>> /\ subsets = <<>>
    /\ CacheIdle

Merge ==
    /\ pc = "merge"
    /\ merged' = mergeEnrichedDataIntoFilms(baseFilms, enrichedList)
    /\ pc' = "merged"
    /\ UNCHANGED <<baseFilms, enrichedList>>
    /\ UNCHANGED notMergeVars

NextMerge == Merge

SpecMerge == InitMerge /\ [][NextMerge]_vars

(***************************************************************************)
(* Specification of the App: comparisons are submitted, their owners are   *)
(* fetched one after the other, the result or the error is shown, posters  *)
(* are looked up in the background and the user resets                     *)
(***************************************************************************)
\* the handle lists the form submits
Handles == { <<"alice", "bob">>, <<"alice", "bob", "carol">> }

\* catalog entries as fetchWatchlist returns them for the App
FilmOne == [title |-> <<"a">>, imdbId |-> "tt1"]

FilmTwo == [title |-> <<"b">>, year |-> 5, imdbId |-> "tt2"]

\* the lists a successful fetchWatchlist returns
FetchedCatalogs == { <<>>, <<FilmOne, FilmTwo>> }

\* the outcomes of fetchWatchlist: a list, or an exception
FetchOutcomes ==
    {[ok |-> FALSE]} \cup {[ok |-> TRUE, films |-> c] : c \in FetchedCatalogs}

\* the outcomes of enrichFilmPosterFromTMDB: null, or the film with a poster
LookupOutcomes(film) ==
    {Null, [isNull |-> FALSE, film |-> setPoster(film, "q")]}

InitApp ==
    /\ pc = "app"
    /\ AppIdle
    /\ FormIdle
    /\ FollowIdle
    /\ MergeIdle
    /\ CacheIdle
    /\ userFilms = <<>> /\ result = NoResult /\ rendered = <<>>
    /\ filmA = NoFilm /\ filmB = NoFilm /\ keys = <<>>
    /\ ids = <<>> /\ subsets = <<>>

\* what no step of the App touches
AppFrame ==
    UNCHANGED <<pc, result, rendered, keyVars, combVars, mergeVars,
                now, last, sets, ticks, formVars, followVars>>

\* handleSubmit up to its first await
Submit ==
    /\ pc = "app"
    /\ ~isLoading /\ appResult = Null /\ appError = Null
    /\ requests < MaxRequests
    /\ \E usernamesArray \in Handles : appUsernames' = usernamesArray
    /\ isLoading' = TRUE
    /\ appError' = Null
    /\ appResult' = Null
    /\ userFilms' = <<>>
    /\ userProfiles' = <<>>
    /\ failedUsers' = <<>>
    /\ enrichmentQueue' = <<>>
    /\ requests' = requests + 1
    /\ phase' = "fetching"
    /\ matcherRuns' = Append(matcherRuns, 0)
    /\ UNCHANGED <<appProfiles, formKey, currentScrapingUsername, tasks, resultReq,
                   enrichStarted, lastUpdate, inFlight, lastFetch>>
    /\ UNCHANGED <<watchlistCache, profileCache, enrichedCache>>
    /\ AppFrame

\* if (!films): the cache returned null, an empty list is a hit
needsFetchWhenEmpty(cached) == cached = Null \/ cached.films = <<>>

needsFetch(cached) == cached = Null

\* what an iteration pushes to userFilms, in the try block or in the catch
pushOwnerUnlessThrown(uf, username, films, thrown) ==
    IF thrown THEN uf ELSE Append(uf, [username |-> username, films |-> films])

pushOwner(uf, username, films, thrown) ==
    Append(uf, [username |-> username, films |-> IF thrown THEN <<>> ELSE films])

\* i < usernamesArray.length is false: the loop is over
loopEndedAtTwo(uf, usernamesArray) == Len(uf) >= 2

loopEnded(uf, usernamesArray) == Len(uf) = Len(usernamesArray)

\* the for loop of handleSubmit is at the top of an iteration: the await of
\* the iteration before it has returned and an owner is left
mayStartFetchAll(pending, uf, usernamesArray) ==
    Len(uf) + Cardinality(pending) < Len(usernamesArray)

mayStartFetch(pending, uf, usernamesArray) ==
    pending = {} /\ Len(uf) < Len(usernamesArray)

\* a loop iteration up to its await: the owner is shown as being scraped and
\* its fetch is awaited; watchlist tells whether fetchWatchlist is called
StartFetch ==
    /\ pc = "app"
    /\ phase = "fetching"
    /\ mayStartFetch(inFlight, userFilms, appUsernames)
    /\ LET owner == Len(userFilms) + Cardinality(inFlight) + 1
           username == appUsernames[owner]
       IN  /\ currentScrapingUsername' = username
           /\ inFlight' = inFlight \cup
                 {[req |-> requests, owner |-> owner,
                   watchlist |->
                       needsFetch(getWatchlist(watchlistCache, username, now).ret)]}
    /\ UNCHANGED <<isLoading, appResult, appError, appUsernames, appProfiles, formKey,
                   userProfiles, failedUsers, enrichmentQueue, tasks, requests, phase,
                   resultReq, enrichStarted, lastUpdate, matcherRuns, lastFetch>>
    /\ UNCHANGED <<userFilms, watchlistCache, profileCache, enrichedCache>>
    /\ AppFrame

\* the end of handleSubmit with one valid owner taken as enough
afterLoopOneValid(uf, profiles, failed, queue) ==
    LET validUsers == SelectSeq(uf, LAMBDA u : Len(u.films) > 0)
    IN  IF Len(validUsers) < 1
        THEN [appError |-> [validUsers |-> Len(validUsers), failed |-> failed],
              appResult |-> appResult,
              appProfiles |-> appProfiles,
              enrichedCache |-> enrichedCache,
              tasks |-> tasks,
              resultReq |-> resultReq,
              enrichStarted |-> enrichStarted,
              matched |-> FALSE]
        ELSE LET matchResult == findCommonFilmsMultiUser(uf)
                 films == filmsToEnrich(matchResult, queue)
                 run == enrichLoop(enrichedCache, matchResult, films, 1, now)
             IN  [appError |-> appError,
                  appResult |-> run.result,
                  appProfiles |-> profiles,
                  enrichedCache |-> run.cache,
                  tasks |-> IF run.i <= Len(films)
                            THEN Append(tasks, [req |-> requests, films |-> films,
                                                i |-> run.i])
                            ELSE tasks,
                  resultReq |-> requests,
                  enrichStarted |-> enrichStarted \cup {requests},
                  matched |-> TRUE]

\* the end of handleSubmit once every owner is in the lists: the check of
\* validUsers, then the error or the result and the start of the enrichment
afterLoop(uf, profiles, failed, queue) ==
    LET validUsers == SelectSeq(uf, LAMBDA u : Len(u.films) > 0)
    IN  IF Len(validUsers) < 2
        THEN [appError |-> [validUsers |-> Len(validUsers), failed |-> failed],
              appResult |-> appResult,
              appProfiles |-> appProfiles,
              enrichedCache |-> enrichedCache,
              tasks |-> tasks,
              resultReq |-> resultReq,
              enrichStarted |-> enrichStarted,
              matched |-> FALSE]
        ELSE LET matchResult == findCommonFilmsMultiUser(uf)
                 films == filmsToEnrich(matchResult, queue)
                 run == enrichLoop(enrichedCache, matchResult, films, 1, now)
             IN  [appError |-> appError,
                  appResult |-> run.result,
                  appProfiles |-> profiles,
                  enrichedCache |-> run.cache,
                  tasks |-> IF run.i <= Len(films)
                            THEN Append(tasks, [req |-> requests, films |-> films,
                                                i |-> run.i])
                            ELSE tasks,
                  resultReq |-> requests,
                  enrichStarted |-> enrichStarted \cup {requests},
                  matched |-> TRUE]

\* one iteration of the fetch loop of handleSubmit, and after the last one
\* the rest of handleSubmit
FetchOwner ==
    /\ pc = "app"
    /\ phase = "fetching"
    /\ Len(userFilms) < Len(appUsernames)
    /\ \E f \in inFlight : f.req = requests /\ f.owner = Len(userFilms) + 1
    /\ inFlight' = {f \in inFlight : ~(f.req = requests /\ f.owner = Len(userFilms) + 1)}
    /\ LET i == Len(userFilms)
           username == appUsernames[i + 1]
           gw == getWatchlist(watchlistCache, username, now)
           gp == getProfile(profileCache, username, now)
       IN  \E outcome \in FetchOutcomes :
             \* a cached watchlist is not fetched: one outcome stands for all
             /\ ~needsFetch(gw.ret) => outcome = [ok |-> FALSE]
             /\ LET thrown == needsFetch(gw.ret) /\ ~outcome.ok
                    films == IF ~needsFetch(gw.ret) THEN gw.ret.films
                             ELSE IF outcome.ok THEN outcome.films ELSE <<>>
                    profile == IF gp.ret # Null THEN gp.ret.profile
                               ELSE FetchedProfile(username)
                    uf == pushOwner(userFilms, username, films, thrown)
                    profiles == Append(userProfiles, IF thrown THEN Null ELSE profile)
                    failed == IF thrown THEN Append(failedUsers, username)
                              ELSE failedUsers
                    queue == IF ~thrown /\ i > 0 /\ Len(uf) >= 2
                             THEN queueFilms(enrichmentQueue,
                                     findCommonFilmsAcrossUsers(
                                         SubSeq(uf, 1, Len(uf) - 1), films))
                             ELSE enrichmentQueue
                    end == afterLoop(uf, profiles, failed, queue)
                    ended == loopEnded(uf, appUsernames)
                IN  /\ watchlistCache' =
                         IF needsFetch(gw.ret) /\ outcome.ok
                         THEN setWatchlist(gw.cache, username, films, now)
                         ELSE gw.cache
                    /\ profileCache' =
                         IF ~thrown /\ gp.ret = Null
                         THEN setProfile(gp.cache, username, profile, now)
                         ELSE gp.cache
                    /\ userFilms' = uf
                    /\ userProfiles' = profiles
                    /\ failedUsers' = failed
                    /\ enrichmentQueue' = queue
                    /\ currentScrapingUsername' = IF ended THEN Null ELSE username
                    /\ isLoading' = ~ended
                    /\ phase' = IF ended THEN "ended" ELSE "fetching"
                    /\ appError' = IF ended THEN end.appError ELSE appError
                    /\ appResult' = IF ended THEN end.appResult ELSE appResult
                    /\ appProfiles' = IF ended THEN end.appProfiles ELSE appProfiles
                    /\ enrichedCache' = IF ended THEN end.enrichedCache ELSE enrichedCache
                    /\ tasks' = IF ended THEN end.tasks ELSE tasks
                    /\ resultReq' = IF ended THEN end.resultReq ELSE resultReq
                    /\ enrichStarted' = IF ended THEN end.enrichStarted ELSE enrichStarted
                    /\ matcherRuns' = IF ended /\ end.matched
                                      THEN [matcherRuns EXCEPT ![requests] = @ + 1]
                                      ELSE matcherRuns
                    /\ lastFetch' = [op |-> "fetch", req |-> requests,
                                     username |-> username,
                                     watchlist |-> needsFetch(gw.ret),
                                     thrown |-> thrown,
                                     before |-> watchlistCache,
                                     after |-> watchlistCache']
    /\ UNCHANGED <<appUsernames, formKey, requests, lastUpdate>>
    /\ AppFrame

\* Array.prototype.splice(k - 1, 1)
RemoveAt(s, k) == SubSeq(s, 1, k - 1) \o SubSeq(s, k + 1, Len(s))

\* the lookup an enrichment call awaits resolves: the poster is cached and
\* set on the result, then the loop runs on to its next await or to its end
ResolveLookup ==
    /\ pc = "app"
    /\ \E k \in 1..Len(tasks) :
         LET task == tasks[k]
             film == task.films[task.i]
         IN  \E enriched \in LookupOutcomes(film) :
               LET found == enriched # Null /\ TruthyStr(enriched.film, "posterUrl")
                   cached == IF found
                             THEN setEnrichedFilm(enrichedCache, enriched.film, now)
                             ELSE enrichedCache
                   updated == IF found
                              THEN applyPoster(appResult, enrichKey(film),
                                               enriched.film.posterUrl)
                              ELSE appResult
                   run == enrichLoop(cached, updated, task.films, task.i + 1, now)
               IN  /\ appResult' = run.result
                   /\ enrichedCache' = run.cache
                   /\ tasks' = IF run.i <= Len(task.films)
                               THEN [tasks EXCEPT ![k].i = run.i]
                               ELSE RemoveAt(tasks, k)
                   /\ lastUpdate' = [op |-> "update", req |-> task.req,
                                     resultReq |-> resultReq, found |-> found,
                                     before |-> appResult, after |-> run.result]
    /\ UNCHANGED <<isLoading, appError, appUsernames, appProfiles, formKey,
                   currentScrapingUsername, userProfiles, failedUsers,
                   enrichmentQueue, requests, phase, resultReq, enrichStarted,
                   inFlight, matcherRuns, lastFetch>>
    /\ UNCHANGED <<userFilms, watchlistCache, profileCache>>
    /\ AppFrame

\* handleReset, called from the result view or from the error message
Reset ==
    /\ pc = "app"
    /\ appResult # Null \/ appError # Null
    /\ appResult' = Null
    /\ appError' = Null
    /\ formKey' = formKey + 1
    /\ phase' = "idle"
    /\ UNCHANGED <<isLoading, appUsernames, appProfiles, currentScrapingUsername,
                   userProfiles, failedUsers, enrichmentQueue, tasks, requests,
                   resultReq, enrichStarted, lastUpdate, inFlight, matcherRuns,
                   lastFetch>>
    /\ UNCHANGED <<userFilms, watchlistCache, profileCache, enrichedCache>>
    /\ AppFrame

NextApp ==
    \/ Submit
    \/ StartFetch
    \/ FetchOwner
    \/ ResolveLookup
    \/ Reset

SpecApp == InitApp /\ [][NextApp]_vars

(***************************************************************************)
(* Specification of the handle form: WatchlistForm.tsx.  The fields get    *)
(* their handles from the props and from the following list; the handlers  *)
(* of the text inputs are outside this specification.                      *)
(***************************************************************************)
MAX_USERS == 10

\* a UserInput; isValid is "true", "false" or "null"
newInput(id, username, isValid) ==
    [id |-> id, username |-> username, isValidating |-> FALSE, isValid |-> isValid]

\* the useState initialiser of userInputs
initialInputs(initialUsernames, initialProfiles) ==
    IF Len(initialUsernames) >= 2
    THEN [index \in 1..Len(initialUsernames) |->
            newInput(index - 1, initialUsernames[index],
                     IF index <= Len(initialProfiles) /\ initialProfiles[index] # Null
                     THEN "true" ELSE "null")]
    ELSE <<newInput(0, <<>>, "null"), newInput(1, <<>>, "null")>>

\* addUser: the new userInputs and nextId
addUser(inputs, nid) ==
    IF Len(inputs) < MAX_USERS
    THEN [inputs |-> Append(inputs, newInput(nid, <<>>, "null")), nextId |-> nid + 1]
    ELSE [inputs |-> inputs, nextId |-> nid]

keepOthers(u, userId) == u.id # userId

\* removeUser
removeUser(inputs, userId) ==
    IF Len(inputs) > 2
    THEN SelectSeq(inputs, LAMBDA u : keepOthers(u, userId))
    ELSE inputs

\* userInputs.findIndex of the first empty field other than fromUserId, 0 for -1
emptyFieldIndex(inputs, fromUserId) ==
    LET hits == {i \in 1..Len(inputs) :
                    inputs[i].id # fromUserId /\ trim(inputs[i].username) = <<>>}
    IN IF hits = {} THEN 0 ELSE CHOOSE i \in hits : \A j \in hits : i <= j

\* handleSelectFollowingUser: the new userInputs and nextId
handleSelectFollowingUser(inputs, nid, selectedUser, fromUserId) ==
    LET at == emptyFieldIndex(inputs, fromUserId)
    IN IF at # 0
       THEN [inputs |-> [i \in 1..Len(inputs) |->
                           IF inputs[i].id = inputs[at].id
                           THEN newInput(inputs[i].id, selectedUser, "true")
                           ELSE inputs[i]],
             nextId |-> nid]
       ELSE IF Len(inputs) < MAX_USERS
            THEN [inputs |-> Append(inputs, newInput(nid, selectedUser, "true")),
                  nextId |-> nid + 1]
            ELSE [inputs |-> inputs, nextId |-> nid]

\* checkForDuplicates returns an error message (TRUE) or null (FALSE)
checkForDuplicates(inputs, value, userId) ==
    LET trimmedValue == toLowerCase(trim(value))
    IN /\ trimmedValue # <<>>
       /\ \E i \in 1..Len(inputs) :
             /\ inputs[i].id # userId
             /\ toLowerCase(trim(inputs[i].username)) = trimmedValue

\* validateUsername(username, userId, false, true) up to its await: the entry of
\* userId after the call
validateUsername(inputs, u) ==
    IF trim(u.username) = <<>>
    THEN [u EXCEPT !.isValidating = FALSE, !.isValid = "null"]
    ELSE IF checkForDuplicates(inputs, trim(u.username), u.id)
         THEN [u EXCEPT !.isValidating = FALSE, !.isValid = "false"]
         ELSE [u EXCEPT !.isValidating = TRUE, !.isValid = "null"]

isValidInput(u) == u.isValid = "true"

\* usernames.length !== uniqueUsernames.size
hasDuplicates(usernames) ==
    Cardinality({usernames[i] : i \in 1..Len(usernames)}) # Len(usernames)

\* the loop that pads the filtered inputs to two fields
RECURSIVE padToTwo(_)
padToTwo(filtered) ==
    IF Len(filtered) < 2
    THEN padToTwo(Append(filtered, newInput(Len(filtered), <<>>, "null")))
    ELSE filtered

\* handleSubmit of the form: the new userInputs and the argument of onSubmit,
\* Null when onSubmit is not called
handleSubmitCaseSensitive(inputs) ==
    LET validUsers == SelectSeq(inputs, isValidInput)
        usernames == [i \in 1..Len(validUsers) |-> trim(validUsers[i].username)]
    IN IF hasDuplicates(usernames)
       THEN [inputs |-> [i \in 1..Len(inputs) |->
                           IF trim(inputs[i].username) # <<>>
                           THEN validateUsername(inputs, inputs[i])
                           ELSE inputs[i]],
             submitted |-> Null]
       ELSE IF Len(validUsers) >= 2
            THEN [inputs |-> padToTwo(SelectSeq(inputs, isValidInput)),
                  submitted |-> [isNull |-> FALSE,
                                 usernames |-> [i \in 1..Len(validUsers) |->
                                                  trim(validUsers[i].username)]]]
            ELSE [inputs |-> inputs, submitted |-> Null]

handleSubmit(inputs) ==
    LET validUsers == SelectSeq(inputs, isValidInput)
        usernames == [i \in 1..Len(validUsers) |->
                        toLowerCase(trim(validUsers[i].username))]
    IN IF hasDuplicates(usernames)
       THEN [inputs |-> [i \in 1..Len(inputs) |->
                           IF trim(inputs[i].username) # <<>>
                           THEN validateUsername(inputs, inputs[i])
                           ELSE inputs[i]],
             submitted |-> Null]
       ELSE IF Len(validUsers) >= 2
            THEN [inputs |-> padToTwo(SelectSeq(inputs, isValidInput)),
                  submitted |-> [isNull |-> FALSE,
                                 usernames |-> [i \in 1..Len(validUsers) |->
                                                  trim(validUsers[i].username)]]]
            ELSE [inputs |-> inputs, submitted |-> Null]

\* a profile of the previous comparison
SomeProfile == [isNull |-> FALSE]

\* the props initialUsernames and initialProfiles the App passes to the form
InitialForms ==
    { [usernames |-> <<>>, profiles |-> <<>>],
      [usernames |-> << <<"a">>, <<"b">> >>, profiles |-> <<SomeProfile, SomeProfile>>],
      [usernames |-> << <<"a">>, <<"c">> >>, profiles |-> <<SomeProfile, Null>>],
      [usernames |-> [i \in 1..(MAX_USERS - 1) |-> UserKey(i)],
       profiles |-> [i \in 1..(MAX_USERS - 1) |-> SomeProfile]] }

\* the usernames of the FollowingUser entries the dropdown offers
FollowingUsernames == { <<"A">>, <<"b">> }

\* the handles known to have a public profile: those that came with a profile
\* and those of the following list
PublicUsers ==
    UNION {{toLowerCase(props.usernames[i]) :
               i \in {j \in 1..Len(props.profiles) : props.profiles[j] # Null}} :
           props \in InitialForms}
    \union {toLowerCase(u) : u \in FollowingUsernames}

\* the outcomes of fetchUserProfile(username, true): TRUE for a profile, FALSE
\* for a throw; the lookup of a handle with a public profile finds it
ValidationOutcomes(username) ==
    IF toLowerCase(username) \in PublicUsers THEN {TRUE} ELSE BOOLEAN

InitForm ==
    /\ pc = "form"
    /\ AppIdle
    /\ FollowIdle
    /\ MergeIdle
    /\ CacheIdle
    /\ userFilms = <<>> /\ result = NoResult /\ rendered = <<>>
    /\ filmA = NoFilm /\ filmB = NoFilm /\ keys = <<>>
    /\ ids = <<>> /\ subsets = <<>>
    /\ \E props \in InitialForms :
          /\ userInputs = initialInputs(props.usernames, props.profiles)
          /\ nextId = Len(userInputs)
    /\ formSubmitted = Null
    /\ removes = 0
    /\ picks = 0

FormFrame == UNCHANGED <<pc, matchVars, notFormVars>>

AddUser ==
    /\ pc = "form"
    /\ LET r == addUser(userInputs, nextId)
       IN userInputs' = r.inputs /\ nextId' = r.nextId
    /\ UNCHANGED <<formSubmitted, removes, picks>>
    /\ FormFrame

RemoveUser ==
    /\ pc = "form"
    /\ removes < MaxRemoves
    /\ \E i \in 1..Len(userInputs) :
          userInputs' = removeUser(userInputs, userInputs[i].id)
    /\ removes' = IF userInputs' # userInputs THEN removes + 1 ELSE removes
    /\ UNCHANGED <<nextId, formSubmitted, picks>>
    /\ FormFrame

\* the dropdown is shown under a validated field only
SelectFollowingUser ==
    /\ pc = "form"
    /\ picks < MaxPicks
    /\ picks' = picks + 1
    /\ \E i \in 1..Len(userInputs), selectedUser \in FollowingUsernames :
          /\ userInputs[i].isValid = "true"
          /\ LET r == handleSelectFollowingUser(userInputs, nextId, selectedUser,
                                                userInputs[i].id)
             IN userInputs' = r.inputs /\ nextId' = r.nextId
    /\ UNCHANGED <<formSubmitted, removes>>
    /\ FormFrame

\* the form's submit event; onSubmit puts the App into isLoading, which
\* unmounts the form
FormSubmit ==
    /\ pc = "form"
    /\ LET r == handleSubmit(userInputs)
       IN /\ userInputs' = r.inputs
          /\ formSubmitted' = r.submitted
          /\ pc' = IF r.submitted # Null THEN "submitted" ELSE "form"
    /\ UNCHANGED <<nextId, removes, picks>>
    /\ UNCHANGED <<matchVars, notFormVars>>

\* validateUsername after its await: fetchUserProfile returned or threw
ValidationResolves ==
    /\ pc = "form"
    /\ \E i \in 1..Len(userInputs) :
       \E found \in ValidationOutcomes(trim(userInputs[i].username)) :
          /\ userInputs[i].isValidating
          /\ userInputs' = [userInputs EXCEPT
                              ![i].isValidating = FALSE,
                              ![i].isValid = IF found THEN "true" ELSE "false"]
    /\ UNCHANGED <<nextId, formSubmitted, removes, picks>>
    /\ FormFrame

NextForm ==
    \/ AddUser
    \/ RemoveUser
    \/ SelectFollowingUser
    \/ FormSubmit
    \/ ValidationResolves

SpecForm == InitForm /\ [][NextForm]_vars

(***************************************************************************)
(* Properties of the matcher                                               *)
(***************************************************************************)
Matched == pc \in {"matched", "rendered"}

Groups == result.userGroups

GroupIndices == 1..Len(Groups)

\* the catalog submitted for an owner (owner ids are distinct)
CatalogOf(u) == userFilms[CHOOSE i \in 1..Len(userFilms) : userFilms[i].username = u].films

KeySetOf(films) == {getFilmKey(films[k]) : k \in 1..Len(films)}

\* the keys that occur in the catalog of every member
SharedKeys(members) ==
    {k \in UNION {KeySetOf(CatalogOf(u)) : u \in RangeOf(members)} :
        \A u \in RangeOf(members) : k \in KeySetOf(CatalogOf(u))}

AllMembersNonEmpty(members) == \A u \in RangeOf(members) : CatalogOf(u) # <<>>

SomeMemberEmpty(members) == \E u \in RangeOf(members) : CatalogOf(u) = <<>>

NonEmptyOwners == {i \in 1..Len(userFilms) : userFilms[i].films # <<>>}

\* C1: the result has exactly one group per combination of 2 or more owners,
\* and a combination whose owners share no title is kept as a group with
\* filmCount 0 and an empty commonFilms list.
C1_OneGroupPerCombination ==
    Matched =>
        LET combos == generateCombinations(usernamesOf(userFilms), 2)
        IN  /\ Len(Groups) = Len(combos)
            /\ \A c \in 1..Len(combos) :
                 /\ Cardinality({g \in GroupIndices : Groups[g].usernames = combos[c]}) = 1
                 /\ SharedKeys(combos[c]) = {} =>
                      \A g \in GroupIndices :
                         Groups[g].usernames = combos[c] =>
                            /\ Groups[g].filmCount = 0
                            /\ Groups[g].commonFilms = <<>>

\* the part of C1 about the number of groups alone: every combination has
\* exactly one group
GroupPerCombination ==
    Matched =>
        LET combos == generateCombinations(usernamesOf(userFilms), 2)
        IN  /\ Len(Groups) = Len(combos)
            /\ \A c \in 1..Len(combos) :
                 Cardinality({g \in GroupIndices : Groups[g].usernames = combos[c]}) = 1

\* C3: for a combination in which every member has a non-empty catalog, a key
\* is represented in commonFilms iff it occurs in the catalog of every member.
C3_CommonKeysAreIntersection ==
    Matched =>
        \A g \in GroupIndices :
            AllMembersNonEmpty(Groups[g].usernames) =>
                KeySetOf(Groups[g].commonFilms) = SharedKeys(Groups[g].usernames)

\* a group of three owners with non-empty catalogs whose shared keys are some
\* but not all of the first member's keys
C3_Witness ==
    /\ Matched
    /\ \E g \in GroupIndices :
         /\ Len(Groups[g].usernames) = 3
         /\ AllMembersNonEmpty(Groups[g].usernames)
         /\ Groups[g].commonFilms # <<>>
         /\ KeySetOf(Groups[g].commonFilms) # KeySetOf(CatalogOf(Groups[g].usernames[1]))

\* C4: every group that has a member with an empty catalog has filmCount 0 and
\* empty commonFilms, and with fewer than two non-empty catalogs every group
\* has filmCount 0.
C4_EmptyOwnerGivesZero ==
    Matched =>
        /\ \A g \in GroupIndices :
             SomeMemberEmpty(Groups[g].usernames) =>
                /\ Groups[g].filmCount = 0
                /\ Groups[g].commonFilms = <<>>
        /\ Cardinality(NonEmptyOwners) < 2 =>
             \A g \in GroupIndices : Groups[g].filmCount = 0

\* C5: filmCount is the number of distinct keys shared by the members and is
\* the length of commonFilms; stated for the groups in which no member has an
\* empty catalog, where the count is not affected by the handling of empty
\* catalogs.
C5_CountIsDistinctSharedKeys ==
    Matched =>
        \A g \in GroupIndices :
            AllMembersNonEmpty(Groups[g].usernames) =>
                /\ Groups[g].filmCount = Cardinality(SharedKeys(Groups[g].usernames))
                /\ Groups[g].filmCount = Len(Groups[g].commonFilms)

\* C7: userWatchlistCounts maps every submitted owner to the raw length of
\* that owner's catalog list.
C7_RawCounts ==
    Matched =>
        /\ DOMAIN result.userWatchlistCounts = RangeOf(usernamesOf(userFilms))
        /\ \A i \in 1..Len(userFilms) :
             result.userWatchlistCounts[userFilms[i].username] = Len(userFilms[i].films)

\* one owner lists the same title twice and is counted 2, another owner has
\* an empty catalog and is counted 0
C7_Witness ==
    /\ Matched
    /\ \E i, j \in 1..Len(userFilms) :
         /\ Len(userFilms[i].films) = 2
         /\ Cardinality(KeySetOf(userFilms[i].films)) = 1
         /\ result.userWatchlistCounts[userFilms[i].username] = 2
         /\ userFilms[j].films = <<>>
         /\ result.userWatchlistCounts[userFilms[j].username] = 0

\* a list of groups is ranked: more members first, and among groups with the
\* same number of members filmCount does not increase
Ranked(groups) ==
    \A i, j \in 1..Len(groups) :
        i < j =>
            /\ Len(groups[i].usernames) >= Len(groups[j].usernames)
            /\ Len(groups[i].usernames) = Len(groups[j].usernames) =>
                  groups[i].filmCount >= groups[j].filmCount

\* C8: in the ranked output (the userGroups list and the displayed order)
\* groups with more members come first and, among groups with the same member
\* count, filmCount is non-increasing.
C8_Ranked ==
    /\ Matched => Ranked(Groups)
    /\ pc = "rendered" => (Ranked(rendered) /\ Len(rendered) = Len(Groups))

\* the generator emitted a pair with fewer films before a pair with more, and
\* pairs before the triple
C8_Witness ==
    /\ pc = "rendered"
    /\ Len(Groups) = 4
    /\ LET u == unsortedGroups(userFilms)
       IN  /\ Len(u[1].usernames) < Len(u[2].usernames)
           /\ \E i, j \in 1..Len(u) :
                /\ i < j
                /\ Len(u[i].usernames) = Len(u[j].usernames)
                /\ u[i].filmCount < u[j].filmCount

(***************************************************************************)
(* Properties of the combination generator                                 *)
(***************************************************************************)
RECURSIVE Pow2(_)
Pow2(n) == IF n = 0 THEN 1 ELSE 2 * Pow2(n - 1)

\* C2: for n distinct owner ids generateCombinations(ids, 2) returns exactly
\* 2^n - n - 1 subsets, each of size at least 2, no two with the same member
\* set, and every subset of size at least 2 is among them.
C2_AllSubsetsOnce ==
    pc = "subsets" =>
        LET n == Len(ids)
        IN  /\ Len(subsets) = Pow2(n) - n - 1
            /\ \A i \in 1..Len(subsets) :
                 /\ Len(subsets[i]) >= 2
                 /\ Cardinality(RangeOf(subsets[i])) = Len(subsets[i])
            /\ \A i, j \in 1..Len(subsets) :
                 i # j => RangeOf(subsets[i]) # RangeOf(subsets[j])
            /\ {RangeOf(subsets[i]) : i \in 1..Len(subsets)}
                 = {S \in SUBSET RangeOf(ids) : Cardinality(S) >= 2}

C2_Witness ==
    /\ pc = "subsets"
    /\ Len(ids) = MaxIds
    /\ Len(subsets) = Pow2(MaxIds) - MaxIds - 1

(***************************************************************************)
(* Properties of the comparison key                                        *)
(***************************************************************************)
SameYear(a, b) ==
    \/ ~Has(a, "year") /\ ~Has(b, "year")
    \/ Has(a, "year") /\ Has(b, "year") /\ a.year = b.year

\* the identity the key is said to encode
SameIdentity(a, b) ==
    \/ Has(a, "tmdbId") /\ Has(b, "tmdbId") /\ a.tmdbId = b.tmdbId
    \/ /\ ~Has(a, "tmdbId") /\ ~Has(b, "tmdbId")
       /\ toLowerCase(trim(a.title)) = toLowerCase(trim(b.title))
       /\ SameYear(a, b)

\* C6: two entries get the same key exactly when both carry an externalId and
\* the ids are equal, or neither carries one and their trimmed lower-cased
\* titles and their years are equal; an entry with an externalId never shares
\* a key with an entry without one; structurally equal entries get equal keys.
C6_KeyIdentity ==
    pc = "keys" =>
        /\ (keys[1] = keys[2]) <=> SameIdentity(filmA, filmB)
        /\ Has(filmA, "tmdbId") # Has(filmB, "tmdbId") => keys[1] # keys[2]
        /\ filmA = filmB => keys[1] = keys[2]

(***************************************************************************)
(* Properties of the session cache                                         *)
(***************************************************************************)
StoreOf(store) == IF store = "watchlist" THEN watchlistCache ELSE enrichedCache

CapOf(store) ==
    IF store = "watchlist" THEN MAX_WATCHLIST_CACHE_SIZE ELSE MAX_ENRICHED_CACHE_SIZE

\* C9: for each store, a set stores the value with storedAt = now, and a get
\* of a stored key returns the stored value while now - storedAt is at most
\* the TTL (exactly one hour included) and otherwise returns absent and
\* removes the entry.
C9_GetHonoursTtl ==
    /\ last.op = "set" =>
         /\ mapHas(StoreOf(last.store), last.key)
         /\ mapGet(StoreOf(last.store), last.key) =
                [key |-> last.key, films |-> last.films, timestamp |-> last.at]
    /\ (last.op = "get" /\ mapHas(last.before, last.key)) =>
         LET stored == mapGet(last.before, last.key)
         IN  IF last.at - stored.timestamp <= 60 * 60 * 1000
             THEN /\ last.ret = Value(stored.films)
                  /\ StoreOf(last.store) = last.before
             ELSE /\ last.ret = Null
                  /\ ~mapHas(StoreOf(last.store), last.key)
                  /\ Len(StoreOf(last.store)) = Len(last.before) - 1

\* a get of an entry that is exactly one hour old returned the stored value
C9_Witness ==
    /\ last.op = "get"
    /\ mapHas(last.before, last.key)
    /\ last.at - mapGet(last.before, last.key).timestamp = 60 * 60 * 1000
    /\ last.ret # Null
    /\ last.ret.films = mapGet(last.before, last.key).films

\* a get of an entry older than one hour returned absent and removed it
C9_ExpiryReached ==
    /\ last.op = "get"
    /\ mapHas(last.before, last.key)
    /\ last.at - mapGet(last.before, last.key).timestamp = 60 * 60 * 1000 + 1
    /\ last.ret = Null
    /\ ~mapHas(StoreOf(last.store), last.key)

\* C10: a set that inserts a new key into a store holding exactly its cap of
\* entries removes exactly one entry, the removed entry has the smallest
\* storedAt, and every other entry stays with its value and storedAt.
C10_EvictsExactlyOldest ==
    (/\ last.op = "set"
     /\ ~mapHas(last.before, last.key)
     /\ Len(last.before) = CapOf(last.store)) =>
        LET before == last.before
            after == StoreOf(last.store)
            removed == {i \in 1..Len(before) : ~mapHas(after, before[i].key)}
        IN  /\ Cardinality(removed) = 1
            /\ \A i \in removed :
                 \A j \in 1..Len(before) : before[i].timestamp <= before[j].timestamp
            /\ \A j \in (1..Len(before)) \ removed :
                 \E k \in 1..Len(after) : after[k] = before[j]
            /\ mapHas(after, last.key)
            /\ Len(after) = CapOf(last.store)

\* a new key was set into a full store whose entries have different ages
C10_Witness ==
    /\ last.op = "set"
    /\ ~mapHas(last.before, last.key)
    /\ Len(last.before) = CapOf(last.store)
    /\ \A i, j \in 1..Len(last.before) :
         i # j => last.before[i].timestamp # last.before[j].timestamp
    /\ ~mapHas(StoreOf(last.store), last.before[1].key)

\* C12: after any sequence of setWatchlist and getWatchlist calls, with any
\* keys and at any times, the watchlist store holds at most 50 entries.
C12_WatchlistAtMostCap == Len(watchlistCache) <= 50

\* setWatchlist stored a new key into a watchlist store that held 50 entries
\* and the store still holds 50
C12_Witness ==
    /\ last.op = "set"
    /\ last.store = "watchlist"
    /\ Len(last.before) = 50
    /\ ~mapHas(last.before, last.key)
    /\ mapHas(watchlistCache, last.key)
    /\ Len(watchlistCache) = 50

(***************************************************************************)
(* Properties of the enriched store                                        *)
(***************************************************************************)
\* C11: after any sequence of setEnrichedData, setEnrichedFilm,
\* getEnrichedData and getEnrichedFilm calls the enriched store holds at most
\* 20 entries.
C11_EnrichedAtMostCap == Len(enrichedCache) <= 20

\* a single film was set into a full store whose oldest entry is a film: the
\* store grew beyond its cap
C11_OverCap ==
    /\ last.op = "setFilm"
    /\ Len(last.before) = MAX_ENRICHED_CACHE_SIZE
    /\ startsWith(getOldestKey(last.before), FilmPrefix)
    /\ Len(enrichedCache) = MAX_ENRICHED_CACHE_SIZE + 1

(***************************************************************************)
(* Properties of the merge                                                 *)
(***************************************************************************)
\* the enrichment fields of an entry
EnrichmentFields ==
    {"posterUrl", "plot", "director", "cast", "genre", "rating", "runtime",
     "trailerUrl"}

\* the two entries have the same title-year key: equal lower-cased trimmed
\* titles and equal years, or no year on either
SameTitleYear(a, b) ==
    /\ trim(toLowerCase(a.title)) = trim(toLowerCase(b.title))
    /\ \/ ~Truthy(a, "year") /\ ~Truthy(b, "year")
       \/ Truthy(a, "year") /\ Truthy(b, "year") /\ a.year = b.year

\* the positions of the enriched list whose entry matches a base entry
MatchesOf(film) ==
    {k \in 1..Len(enrichedList) : SameTitleYear(film, enrichedList[k])}

\* the enriched entry a base entry is merged with: the last one that matches
MatchedEnriched(film) ==
    enrichedList[CHOOSE k \in MatchesOf(film) : \A j \in MatchesOf(film) : j <= k]

\* C13: every enrichment field that is present on a base entry is still
\* present on the entry the merge returns for it, whatever the matched
\* enriched entry contains.
C13_NoFieldRegresses ==
    pc = "merged" =>
        \A i \in 1..Len(baseFilms) :
            \A f \in EnrichmentFields :
                Has(baseFilms[i], f) => Has(merged[i], f)

\* a base entry with a synopsis was merged with an enriched entry without one
\* and the returned entry has no synopsis
C13_FieldLost ==
    /\ pc = "merged"
    /\ \E i \in 1..Len(baseFilms) :
         /\ Has(baseFilms[i], "plot")
         /\ MatchesOf(baseFilms[i]) # {}
         /\ ~Has(MatchedEnriched(baseFilms[i]), "plot")
         /\ ~Has(merged[i], "plot")

\* C14: a matched base entry gets the enriched entry's posterUrl when the
\* enriched entry has one and keeps its own posterUrl when it has none.
C14_PosterFallback ==
    pc = "merged" =>
        \A i \in 1..Len(baseFilms) :
            MatchesOf(baseFilms[i]) # {} =>
                LET enriched == MatchedEnriched(baseFilms[i])
                IN  IF Has(enriched, "posterUrl")
                    THEN /\ Has(merged[i], "posterUrl")
                         /\ merged[i].posterUrl = enriched.posterUrl
                    ELSE Has(merged[i], "posterUrl") = Has(baseFilms[i], "posterUrl")
                         /\ (Has(baseFilms[i], "posterUrl") =>
                                merged[i].posterUrl = baseFilms[i].posterUrl)

\* one base entry with a poster took a different poster from its enriched
\* entry, another base entry with a poster kept it because its enriched entry
\* has none
C14_Witness ==
    /\ pc = "merged"
    /\ \E i, j \in 1..Len(baseFilms) :
         /\ MatchesOf(baseFilms[i]) # {}
         /\ Has(baseFilms[i], "posterUrl")
         /\ Has(MatchedEnriched(baseFilms[i]), "posterUrl")
         /\ MatchedEnriched(baseFilms[i]).posterUrl # baseFilms[i].posterUrl
         /\ merged[i].posterUrl = MatchedEnriched(baseFilms[i]).posterUrl
         /\ MatchesOf(baseFilms[j]) # {}
         /\ Has(baseFilms[j], "posterUrl")
         /\ ~Has(MatchedEnriched(baseFilms[j]), "posterUrl")
         /\ merged[j].posterUrl = baseFilms[j].posterUrl

\* C15: the merge returns a list of the same length and order as the base
\* list; an entry differs from its base entry only when some enriched entry
\* has the same title-year key (externalId ignored); every base entry without
\* such a match is returned unchanged; the two argument lists stay as they
\* were.
C15_MergeFrame ==
    /\ [](pc = "merged" =>
            /\ Len(merged) = Len(baseFilms)
            /\ \A i \in 1..Len(baseFilms) :
                 /\ merged[i].title = baseFilms[i].title
                 /\ Has(merged[i], "year") = Has(baseFilms[i], "year")
                 /\ Has(baseFilms[i], "year") => merged[i].year = baseFilms[i].year
                 /\ merged[i] # baseFilms[i] => MatchesOf(baseFilms[i]) # {}
                 /\ MatchesOf(baseFilms[i]) = {} => merged[i] = baseFilms[i])
    /\ [][baseFilms' = baseFilms /\ enrichedList' = enrichedList]_vars

\* a list of two entries was merged: one entry has a match that differs in
\* letter case, blanks and externalId and was changed, the other has an
\* enriched entry of the same title and another year and was returned as is
C15_Witness ==
    /\ pc = "merged"
    /\ Len(baseFilms) = 2
    /\ \E i, j \in 1..2 :
         /\ MatchesOf(baseFilms[i]) # {}
         /\ MatchedEnriched(baseFilms[i]).title # baseFilms[i].title
         /\ merged[i] # baseFilms[i]
         /\ MatchesOf(baseFilms[j]) = {}
         /\ \E k \in 1..Len(enrichedList) :
               trim(toLowerCase(enrichedList[k].title))
                   = trim(toLowerCase(baseFilms[j].title))
         /\ merged[j] = baseFilms[j]

(***************************************************************************)
(* Properties of the App                                                   *)
(***************************************************************************)
\* an entry without its enrichment fields
CoreOf(f) == [x \in (DOMAIN f) \ EnrichmentFields |-> f[x]]

\* two results have the same groups, members, counts and entries, enrichment
\* fields aside
SameShape(a, b) ==
    /\ a.userWatchlistCounts = b.userWatchlistCounts
    /\ Len(a.userGroups) = Len(b.userGroups)
    /\ \A g \in 1..Len(a.userGroups) :
         /\ a.userGroups[g].usernames = b.userGroups[g].usernames
         /\ a.userGroups[g].filmCount = b.userGroups[g].filmCount
         /\ Len(a.userGroups[g].commonFilms) = Len(b.userGroups[g].commonFilms)
         /\ \A k \in 1..Len(a.userGroups[g].commonFilms) :
              CoreOf(a.userGroups[g].commonFilms[k])
                  = CoreOf(b.userGroups[g].commonFilms[k])

C17_UpdatesOwnResultOnly ==
    (lastUpdate.op = "update" /\ lastUpdate.req # lastUpdate.resultReq) =>
        lastUpdate.after = lastUpdate.before

\* a lookup of the first comparison resolved while the result of the second
\* comparison was published, and changed that result
C17_LateUpdateApplied ==
    /\ lastUpdate.op = "update"
    /\ lastUpdate.req = 1
    /\ lastUpdate.resultReq = 2
    /\ lastUpdate.before # Null
    /\ lastUpdate.after # lastUpdate.before

\* C18: a comparison whose fetch phase ends with fewer than two non-empty
\* catalogs ends with the error set, no result, no enrichment started and
\* the loading flag cleared; with two or more it ends with a result and no
\* error.
C18_FewerThanTwoIsError ==
    phase = "ended" =>
        IF Cardinality(NonEmptyOwners) < 2
        THEN /\ appError # Null
             /\ appResult = Null
             /\ ~isLoading
             /\ requests \notin enrichStarted
        ELSE /\ appResult # Null
             /\ appError = Null

\* a comparison of three owners ended in the error: one catalog is not
\* empty, one fetch failed
C18_Witness ==
    /\ phase = "ended"
    /\ Len(userFilms) = 3
    /\ Cardinality(NonEmptyOwners) = 1
    /\ failedUsers # <<>>
    /\ appError # Null
    /\ appResult = Null
    /\ ~isLoading

(***************************************************************************)
(* Properties of the handle form                                           *)
(***************************************************************************)
FormShown == pc \in {"form", "submitted"}

PairwiseDistinctHandles(handles) ==
    \A i, j \in 1..Len(handles) :
        i # j => toLowerCase(handles[i]) # toLowerCase(handles[j])

\* C19: the form always holds between 2 and MAX_USERS (10) handle inputs, and
\* a list handed to onSubmit has between 2 and 10 handles, pairwise distinct
\* when compared case-insensitively, each the trimmed handle of an input
\* whose isValid is true
C19_FormBounds ==
    FormShown =>
        /\ Len(userInputs) >= 2
        /\ Len(userInputs) <= MAX_USERS
        /\ formSubmitted # Null =>
              /\ Len(formSubmitted.usernames) >= 2
              /\ Len(formSubmitted.usernames) <= MAX_USERS
              /\ PairwiseDistinctHandles(formSubmitted.usernames)
              /\ Len(userInputs) = Len(formSubmitted.usernames)
              /\ \A i \in 1..Len(userInputs) :
                    /\ userInputs[i].isValid = "true"
                    /\ trim(userInputs[i].username) = formSubmitted.usernames[i]

\* a comparison of MAX_USERS handles was submitted after a pick from the
\* following list
C19_Witness ==
    /\ pc = "submitted"
    /\ formSubmitted # Null
    /\ Len(formSubmitted.usernames) = MAX_USERS
    /\ picks > 0

(***************************************************************************)
(* Which instance of a shared entry a group lists                          *)
(***************************************************************************)
\* the keys every member of the group has in its catalog
KeysOfAllMembers(g) ==
    {getFilmKey(f) : f \in RangeOf(findUser(userFilms, Groups[g].usernames[1]))}
    \cap {k \in {getFilmKey(f) : f \in MatchFilms} :
             \A m \in 1..Len(Groups[g].usernames) :
                 someKey(findUser(userFilms, Groups[g].usernames[m]), k)}

\* the entries of films whose key every member of group g has
SharedPart(g, films) ==
    SelectSeq(films, LAMBDA f : getFilmKey(f) \in KeysOfAllMembers(g))

\* C20: in every group, the entries listed for the keys that all members
\* share are the entries of the first member's catalog (first in the
\* combination's input order) with those keys, in that catalog's order; an
\* instance held only by a later member is never listed
C20_FirstMemberInstance ==
    Matched =>
        \A g \in GroupIndices :
            SharedPart(g, Groups[g].commonFilms)
                = SharedPart(g, findUser(userFilms, Groups[g].usernames[1]))

\* a group lists a shared entry of which a later member holds another instance
C20_Witness ==
    /\ Matched
    /\ \E g \in GroupIndices :
          /\ KeysOfAllMembers(g) # {}
          /\ \E m \in 2..Len(Groups[g].usernames) :
                \E f \in RangeOf(findUser(userFilms, Groups[g].usernames[m])) :
                    /\ getFilmKey(f) \in KeysOfAllMembers(g)
                    /\ f \notin RangeOf(findUser(userFilms, Groups[g].usernames[1]))
                    /\ f \notin RangeOf(Groups[g].commonFilms)

(***************************************************************************)
(* Stability of the ranking                                                *)
(***************************************************************************)
\* position of a combination in the list the generator emitted
EmittedAt(members) ==
    LET combinations == generateCombinations(usernamesOf(userFilms), 2)
    IN  CHOOSE c \in 1..Len(combinations) : combinations[c] = members

\* position of an owner in the input list
OwnerAt(u) == CHOOSE i \in 1..Len(userFilms) : userFilms[i].username = u

TiesKeepGeneratorOrder(groups) ==
    \A i, j \in 1..Len(groups) :
        (/\ i < j
         /\ Len(groups[i].usernames) = Len(groups[j].usernames)
         /\ groups[i].filmCount = groups[j].filmCount)
        => EmittedAt(groups[i].usernames) < EmittedAt(groups[j].usernames)

MembersKeepInputOrder(groups) ==
    \A g \in 1..Len(groups) :
        \A i, j \in 1..Len(groups[g].usernames) :
            i < j => OwnerAt(groups[g].usernames[i]) < OwnerAt(groups[g].usernames[j])

\* C21: in the ranked output (the userGroups list and the displayed order)
\* two groups with the same member count and the same filmCount keep the
\* relative order in which the generator emitted their combinations, and the
\* members of every group keep the relative order of the input owner list
C21_StableRanking ==
    /\ Matched => (TiesKeepGeneratorOrder(Groups) /\ MembersKeepInputOrder(Groups))
    /\ pc = "rendered" =>
          (TiesKeepGeneratorOrder(rendered) /\ MembersKeepInputOrder(rendered))

\* three owners, two pairs tie on filmCount and a pair with more films was
\* emitted after them
C21_Witness ==
    /\ pc = "rendered"
    /\ Len(Groups) = 4
    /\ \E i, j, k \in GroupIndices :
          /\ i < j /\ j < k
          /\ Len(Groups[j].usernames) = 2 /\ Len(Groups[k].usernames) = 2
          /\ Groups[j].filmCount = Groups[k].filmCount
          /\ Len(Groups[i].usernames) = 2
          /\ Groups[i].filmCount > Groups[j].filmCount
          /\ EmittedAt(Groups[i].usernames) > EmittedAt(Groups[j].usernames)

(***************************************************************************)
(* Eviction order does not depend on reads                                 *)
(***************************************************************************)
\* C22: a get that returns a value leaves its store exactly as it was (no
\* timestamp is refreshed), so the entry the next eviction would choose is
\* the one it would have chosen without the read
C22_GetHitChangesNothing ==
    (/\ pc = "cache"
     /\ last.op = "get"
     /\ ~last.ret.isNull)
    => /\ StoreOf(last.store) = last.before
       /\ getOldestKey(StoreOf(last.store)) = getOldestKey(last.before)

\* the oldest entry of a full watchlist store was read later than it was stored
C22_Witness ==
    /\ pc = "cache"
    /\ last.op = "get"
    /\ last.store = "watchlist"
    /\ ~last.ret.isNull
    /\ Len(last.before) = MAX_WATCHLIST_CACHE_SIZE
    /\ getOldestKey(last.before) = last.key
    /\ last.at > mapGet(last.before, last.key).timestamp

(***************************************************************************)
(* Order of the fetches and of the matcher                                 *)
(***************************************************************************)
AppRuns == pc = "app"

\* C23: during a comparison at most one owner fetch is awaited, it is the
\* fetch of the owner that follows the owners already in the lists (each of
\* which has completed, with a catalog or as a failure), and the owners in
\* the lists are the submitted handles in submission order
C23_FetchesSequential ==
    AppRuns =>
        /\ Cardinality(inFlight) <= 1
        /\ \A f \in inFlight :
              /\ f.req = requests
              /\ phase = "fetching"
              /\ f.owner = Len(userFilms) + 1
        /\ Len(userFilms) <= Len(appUsernames)
        /\ usernamesOf(userFilms) = SubSeq(appUsernames, 1, Len(userFilms))

\* the fetch of the third owner is awaited after the first owner's fetch
\* failed and the second owner's fetch returned a catalog
C23_Witness ==
    /\ AppRuns
    /\ \E f \in inFlight : f.owner = 3 /\ f.watchlist
    /\ failedUsers = <<appUsernames[1]>>
    /\ userFilms[2].films # <<>>

C25_OneLookupInFlight == AppRuns => Len(tasks) <= 1

\* the enrichment of the first comparison and the enrichment of the second
\* comparison both await a lookup
C25_TwoLookups ==
    /\ AppRuns
    /\ Len(tasks) = 2
    /\ tasks[1].req = 1
    /\ tasks[2].req = 2

\* C26: an owner whose fetch failed is in the lists at its submission
\* position with an empty catalog and a null profile; the loop goes on to the
\* later owners; when the loop is over userFilms and userProfiles have one
\* element per submitted handle, in submission order, and these are the lists
\* the matcher and the profile display get
C26_FailedOwnerKept ==
    AppRuns =>
        /\ Len(userProfiles) = Len(userFilms)
        /\ usernamesOf(userFilms) = SubSeq(appUsernames, 1, Len(userFilms))
        /\ \A k \in 1..Len(failedUsers) :
              \E i \in 1..Len(userFilms) :
                  /\ userFilms[i].username = failedUsers[k]
                  /\ userFilms[i].films = <<>>
                  /\ userProfiles[i] = Null
        /\ (lastFetch.op = "fetch" /\ lastFetch.thrown /\ lastFetch.req = requests) =>
              lastFetch.username \in RangeOf(failedUsers)
        /\ phase = "ended" => usernamesOf(userFilms) = appUsernames
        /\ appResult # Null =>
              /\ appProfiles = userProfiles
              /\ Len(appProfiles) = Len(appUsernames)
              /\ DOMAIN appResult.userWatchlistCounts = RangeOf(appUsernames)

\* the first of three owners failed, the other two were fetched and the
\* result is published
C26_Witness ==
    /\ AppRuns
    /\ appResult # Null
    /\ Len(appUsernames) = 3
    /\ failedUsers = <<appUsernames[1]>>
    /\ userFilms[1].films = <<>>
    /\ appProfiles[1] = Null
    /\ appProfiles[2] # Null
    /\ userFilms[3].films # <<>>

\* C29: a fetch that failed leaves the watchlist store as it was, without an
\* entry for that owner, so the owner is fetched again when submitted again;
\* fetchWatchlist is called only for an owner the store has no unexpired
\* list for
C29_FailedFetchNotCached ==
    AppRuns =>
        /\ (lastFetch.op = "fetch" /\ lastFetch.thrown) =>
              /\ lastFetch.after = lastFetch.before
              /\ ~mapHas(lastFetch.after, lastFetch.username)
        /\ (lastFetch.op = "fetch" /\ lastFetch.watchlist) =>
              getWatchlist(lastFetch.before, lastFetch.username, now).ret = Null
        /\ \A f \in inFlight :
              f.watchlist =>
                  getWatchlist(watchlistCache, appUsernames[f.owner], now).ret = Null
        /\ \A k \in 1..Len(failedUsers) :
              phase = "fetching" => ~mapHas(watchlistCache, failedUsers[k])

\* in the second comparison the first owner is fetched again: its fetch failed
\* in the first comparison and the store has no list for it, while the list
\* of the second owner is cached
C29_Witness ==
    /\ AppRuns
    /\ requests = 2
    /\ \E f \in inFlight : f.owner = 1 /\ f.watchlist
    /\ ~mapHas(watchlistCache, appUsernames[1])
    /\ mapHas(watchlistCache, appUsernames[2])

(***************************************************************************)
(* The session cache: the stores against each other, and overwrites at the *)
(* cap.                                                                    *)
(***************************************************************************)

\* the stores a step changes
ChangedStores ==
    {store \in {"watchlist", "profile", "enriched"} :
       \/ store = "watchlist" /\ watchlistCache' # watchlistCache
       \/ store = "profile" /\ profileCache' # profileCache
       \/ store = "enriched" /\ enrichedCache' # enrichedCache}

\* C27: a call on one store (a set, a get that expires an entry, a set that
\* evicts) changes no other store, and clearEnrichedCache leaves the enriched
\* store empty and the watchlist and profile stores as they were.
C27_StoresIndependent ==
    /\ [][\A store \in ChangedStores : store = last'.store]_vars
    /\ [](last.op = "clearEnriched" =>
            /\ enrichedCache = <<>>
            /\ watchlistCache = last.before.watchlistCache
            /\ profileCache = last.before.profileCache)

\* clearEnrichedCache ran on a session cache whose three stores all held
\* entries
C27_Witness ==
    /\ last.op = "clearEnriched"
    /\ last.before.enrichedCache # <<>>
    /\ watchlistCache # <<>>
    /\ profileCache # <<>>

\* the key getOldestKey names in a store that holds entries
OldestKeyOf(cache) == getOldestKey(cache)

\* C28: a set of a key the store already holds, into a store at its cap whose
\* oldest entry belongs to another key, removes that oldest entry: the store
\* ends with cap - 1 entries, the written key among them.
C28_OverwriteAtCapEvicts ==
    (/\ last.op = "set"
     /\ mapHas(last.before, last.key)
     /\ Len(last.before) = CapOf(last.store)
     /\ OldestKeyOf(last.before) # last.key) =>
        LET before == last.before
            after == StoreOf(last.store)
        IN  /\ Len(after) = CapOf(last.store) - 1
            /\ ~mapHas(after, OldestKeyOf(before))
            /\ \A j \in 1..Len(before) :
                 before[j].timestamp <= mapGet(before, OldestKeyOf(before)).timestamp
                   => ~mapHas(after, before[j].key) \/ before[j].key = last.key
            /\ mapHas(after, last.key)
            /\ mapGet(after, last.key).films = last.films
            /\ mapGet(after, last.key).timestamp = last.at

\* a present key that is not the oldest was overwritten in a full store
C28_Witness ==
    /\ last.op = "set"
    /\ mapHas(last.before, last.key)
    /\ Len(last.before) = CapOf(last.store)
    /\ OldestKeyOf(last.before) # last.key
    /\ Len(StoreOf(last.store)) = CapOf(last.store) - 1

(***************************************************************************)
(* The following-feature test service (followingTestService.ts): when the  *)
(* test may run again.                                                     *)
(***************************************************************************)
STORAGE_KEY_LAST_TEST == "following-feature-last-test"
STORAGE_KEY_TEST_RESULT == "following-feature-test-result"
STORAGE_KEY_FAILURE_COUNT == "following-feature-failure-count"
MIN_TEST_INTERVAL == 1000 * 60 * 60 * 24
MAX_FAILURES_BEFORE_BACKOFF == 3
BACKOFF_MULTIPLIER == 2

\* Storage.getItem: the stored string, or null
getItem(storage, key) ==
    IF key \in DOMAIN storage THEN [isNull |-> FALSE, value |-> storage[key]] ELSE Null

\* Storage.setItem
setItem(storage, key, value) ==
    [k \in DOMAIN storage \cup {key} |-> IF k = key THEN value ELSE storage[k]]

\* Storage.removeItem
removeItem(storage, key) == [k \in DOMAIN storage \ {key} |-> storage[k]]

\* !str for the result of getItem: null and the empty string are falsy
falsy(item) == item = Null \/ item.value = <<>>

NaN == "NaN"

IsDigit(c) == \E d \in 0..9 : DigitChar(d) = c

DigitValue(c) == CHOOSE d \in 0..9 : DigitChar(d) = c

RECURSIVE parseDigits(_, _, _)
parseDigits(str, i, acc) ==
    IF i > Len(str) \/ ~IsDigit(str[i]) THEN acc
    ELSE parseDigits(str, i + 1, acc * 10 + DigitValue(str[i]))

\* parseInt(str, 10) of an unsigned string without leading blanks: the number
\* its leading digits spell, NaN when it starts with no digit
parseInt(str) ==
    IF str = <<>> \/ ~IsDigit(str[1]) THEN NaN ELSE parseDigits(str, 1, 0)

Min(a, b) == IF a <= b THEN a ELSE b

Max(a, b) == IF a >= b THEN a ELSE b

requiredIntervalFromFourth(failureCount) ==
    IF failureCount >= MAX_FAILURES_BEFORE_BACKOFF
    THEN LET backoffMultiplier ==
                 BACKOFF_MULTIPLIER ^ (failureCount - MAX_FAILURES_BEFORE_BACKOFF)
         IN  Min(MIN_TEST_INTERVAL * backoffMultiplier, 1000 * 60 * 60 * 24 * 7)
    ELSE MIN_TEST_INTERVAL

\* requiredInterval as shouldTestFollowingFeature and getTimeUntilNextTest
\* compute it from failureCount
requiredInterval(failureCount) ==
    IF failureCount >= MAX_FAILURES_BEFORE_BACKOFF
    THEN LET backoffMultiplier ==
                 BACKOFF_MULTIPLIER ^ (failureCount - MAX_FAILURES_BEFORE_BACKOFF + 1)
         IN  Min(MIN_TEST_INTERVAL * backoffMultiplier, 1000 * 60 * 60 * 24 * 7)
    ELSE MIN_TEST_INTERVAL

\* failureCountStr ? parseInt(failureCountStr, 10) : 0
failureCountOf(storage) ==
    LET failureCountStr == getItem(storage, STORAGE_KEY_FAILURE_COUNT)
    IN  IF falsy(failureCountStr) THEN 0 ELSE parseInt(failureCountStr.value)

\* shouldTestFollowingFeature at time t (storage that does not throw)
shouldTestFollowingFeature(storage, t) ==
    LET lastTestStr == getItem(storage, STORAGE_KEY_LAST_TEST)
    IN  IF falsy(lastTestStr) THEN TRUE
        ELSE LET lastTest == parseInt(lastTestStr.value)
                 timeSinceLastTest == t - lastTest
             IN  timeSinceLastTest >= requiredInterval(failureCountOf(storage))

\* getTimeUntilNextTest at time t (storage that does not throw)
getTimeUntilNextTest(storage, t) ==
    LET lastTestStr == getItem(storage, STORAGE_KEY_LAST_TEST)
    IN  IF falsy(lastTestStr) THEN 0
        ELSE LET lastTest == parseInt(lastTestStr.value)
                 timeSinceLastTest == t - lastTest
                 timeUntilNext == requiredInterval(failureCountOf(storage))
                                    - timeSinceLastTest
             IN  Max(0, timeUntilNext)

\* recordTestSuccess at time t: the storage afterwards; the JSON text of the
\* result is kept as the object it spells
recordTestSuccess(storage, t) ==
    LET s1 == setItem(storage, STORAGE_KEY_LAST_TEST, NumToString(t))
        s2 == setItem(s1, STORAGE_KEY_TEST_RESULT,
                      [enabled |-> TRUE, timestamp |-> t, failureCount |-> 0])
    IN  removeItem(s2, STORAGE_KEY_FAILURE_COUNT)

\* recordTestFailure at time t: the storage afterwards
recordTestFailure(storage, t) ==
    LET failureCountStr == getItem(storage, STORAGE_KEY_FAILURE_COUNT)
        failureCount == IF falsy(failureCountStr) THEN 1
                        ELSE parseInt(failureCountStr.value) + 1
        s1 == setItem(storage, STORAGE_KEY_LAST_TEST, NumToString(t))
        s2 == setItem(s1, STORAGE_KEY_FAILURE_COUNT, NumToString(failureCount))
    IN  setItem(s2, STORAGE_KEY_TEST_RESULT,
                [enabled |-> FALSE, timestamp |-> t, failureCount |-> failureCount])

\* clock advances: one millisecond short of a day, a day, a week
AdvanceSteps == {MIN_TEST_INTERVAL - 1, MIN_TEST_INTERVAL, MIN_TEST_INTERVAL * 7}

InitFollow ==
    /\ pc = "follow"
    /\ AppIdle
    /\ FormIdle
    /\ MergeIdle
    /\ CacheIdle
    /\ userFilms = <<>> /\ result = NoResult /\ rendered = <<>>
    /\ filmA = NoFilm /\ filmB = NoFilm /\ keys = <<>>
    /\ ids = <<>> /\ subsets = <<>>
    /\ localStorage = <<>>
    /\ clock = 0
    /\ followLast = NoCall
    /\ advances = 0

FollowFrame == UNCHANGED <<pc, notFollowVars>>

Advance ==
    /\ pc = "follow"
    /\ advances < MaxAdvances
    /\ \E d \in AdvanceSteps : clock' = clock + d
    /\ advances' = advances + 1
    /\ UNCHANGED <<localStorage, followLast>>
    /\ FollowFrame

ShouldTestFollowingFeature ==
    /\ pc = "follow"
    /\ followLast' = [op |-> "shouldTest", at |-> clock, before |-> localStorage,
                      ret |-> shouldTestFollowingFeature(localStorage, clock)]
    /\ UNCHANGED <<localStorage, clock, advances>>
    /\ FollowFrame

GetTimeUntilNextTest ==
    /\ pc = "follow"
    /\ followLast' = [op |-> "timeUntilNext", at |-> clock, before |-> localStorage,
                      ret |-> getTimeUntilNextTest(localStorage, clock)]
    /\ UNCHANGED <<localStorage, clock, advances>>
    /\ FollowFrame

RecordTestSuccess ==
    /\ pc = "follow"
    /\ localStorage' = recordTestSuccess(localStorage, clock)
    /\ followLast' = [op |-> "success", at |-> clock, before |-> localStorage]
    /\ UNCHANGED <<clock, advances>>
    /\ FollowFrame

RecordTestFailure ==
    /\ pc = "follow"
    /\ failureCountOf(localStorage) < MaxFailures
    /\ localStorage' = recordTestFailure(localStorage, clock)
    /\ followLast' = [op |-> "failure", at |-> clock, before |-> localStorage]
    /\ UNCHANGED <<clock, advances>>
    /\ FollowFrame

NextFollow ==
    \/ Advance
    \/ ShouldTestFollowingFeature
    \/ GetTimeUntilNextTest
    \/ RecordTestSuccess
    \/ RecordTestFailure

SpecFollow == InitFollow /\ [][NextFollow]_vars

\* the wait the rule asks for after n recorded failures: 24 hours below three
\* failures, from the third on twice the wait of one failure fewer, at most
\* 7 days
RECURSIVE ExpectedWait(_)
ExpectedWait(n) ==
    IF n < 3 THEN 24 * 60 * 60 * 1000
    ELSE Min(2 * ExpectedWait(n - 1), 7 * 24 * 60 * 60 * 1000)

\* the time of the last recorded test, for a storage that holds one
LastTestOf(storage) == parseInt(storage[STORAGE_KEY_LAST_TEST])

\* the wait the service requires in the current state
StoredWait == requiredInterval(failureCountOf(localStorage))

====
